---- MODULE Spec2Model ----
(***************************************************************************)
(* Sequence-level quality/complexity assessment of the RNA-seq pipeline:   *)
(*   src/09_library_complexity_metrics.py     (LibraryComplexityMetrics)   *)
(*   src/rnaseq/07_contamination_screening.py (ContaminationScreening)     *)
(*   src/rnaseq/08_strand_specificity_detection.py                         *)
(*                                           (StrandSpecificityDetection)  *)
(*                                                                         *)
(* A FASTQ file is the sequence of its text lines; a line is a sequence of *)
(* one-character strings (the line terminator is left out, the blank that  *)
(* str.strip removes is kept).  Python floats are modelled by exact        *)
(* rationals <<numerator, denominator>> in lowest terms; the entropy, a    *)
(* sum of logarithms, is modelled by the rational whose base-2 logarithm   *)
(* it is (see EntropyTerm).                                                *)
(*                                                                         *)
(* Spec          applies the per-file analysis functions to one file.      *)
(* SpecPool      is the driver: find_fastq_files, the worker pool running  *)
(*               process_sample on every file, and the report.             *)
(* SpecStrand    infer_strandedness_from_fastq around its thresholds.      *)
(* SpecSynthetic calculate_sequence_complexity on repeated sequences.      *)
(* SpecTwice     an analysis function called again on the same file.       *)
(* SpecFlags     generate_quality_flags on report frames.                  *)
(* SpecValidate  src/rnaseq/06_fastqc_quality_control.py,                  *)
(*               validate_fastq_format.                                    *)
(* SpecCap       the sampling loop of infer_strandedness_from_fastq, line  *)
(*               by line, up to its cap of 100,000 reads.                  *)
(* SpecTasks     the process_sample tasks of 09 interleaved line by line.  *)
(* SpecRetry     src/rnaseq/utils.py, retry_with_backoff, and              *)
(*               src/rnaseq/01_geo_query.py, search_geo.                   *)
(* SpecQc        src/rnaseq/06_fastqc_quality_control.py,                  *)
(*               process_fastq_file.                                       *)
(***************************************************************************)
EXTENDS Integers, Sequences, FiniteSets, TLC

VARIABLES
    fastq_file,            \* Spec: the lines of the file under analysis
    call,                  \* Spec: the last call made: function, kmer_size, failure point
    ret,                   \* Spec: the record that call returned
    locals,                \* Spec: the callee's local tallies when it returned
    driver,                \* SpecPool: which of the three driver classes runs
    max_workers,           \* SpecPool: self.max_workers
    fastq_files,           \* SpecPool: find_fastq_files(): index -> file contents
    main_pc,               \* SpecPool: position of main()
    fut,                   \* SpecPool: state of the future of each submitted file
    task_pc,               \* SpecPool: position of process_sample for each file
    task_result,           \* SpecPool: the local `result` dict of each process_sample
    task_fail,             \* SpecPool: which reads of each task raised, and after a tally or not
    results,               \* SpecPool: self.results
    contaminated_samples,  \* SpecPool: self.contaminated_samples
    yielded,               \* SpecPool: the futures as_completed has handed to the loop
    completed,             \* SpecPool: the `completed` counter of the as_completed loop
    report,                \* SpecPool: the rows of the report data frame
    qc_results,            \* SpecQc: self.qc_results
    failed_qc              \* SpecQc: self.failed_qc

qc_vars == <<qc_results, failed_qc>>
engine_vars == <<fastq_file, call, ret, locals, qc_vars>>
pool_vars == <<driver, max_workers, fastq_files, main_pc, fut, task_pc, task_result, task_fail,
               results, contaminated_samples, yielded, completed, report, qc_vars>>
vars == <<fastq_file, call, ret, locals, driver, max_workers, fastq_files, main_pc, fut, task_pc,
          task_result, task_fail, results, contaminated_samples, yielded, completed,
          report, qc_results, failed_qc>>

----------------------------------------------------------------------------
(* Bounds of the model *)

MaxReads == 3          \* a file has at most 4 * MaxReads lines
MaxKmer == 3           \* kmer_size ranges over 1 .. MaxKmer
MaxFiles == 2          \* find_fastq_files returns at most MaxFiles files
MaxWorkers == 2        \* max_workers, the width of the worker pool, is 1 .. MaxWorkers

----------------------------------------------------------------------------
(* Exact rationals for Python floats *)

RECURSIVE gcd(_, _)
gcd(a, b) == IF b = 0 THEN a ELSE gcd(b, a % b)

Abs(x) == IF x < 0 THEN -x ELSE x

\* n / d in lowest terms, d > 0
Rat(n, d) ==
    LET g == gcd(Abs(n), d) IN <<n \div g, d \div g>>

RatZero == <<0, 1>>
RatLt(p, q) == p[1] * q[2] < q[1] * p[2]
RatLeq(p, q) == p[1] * q[2] <= q[1] * p[2]
RatAdd(p, q) == Rat(p[1] * q[2] + q[1] * p[2], p[2] * q[2])
RatOfInt(n) == <<n, 1>>
RatAbs(p) == <<Abs(p[1]), p[2]>>

RECURSIVE Pow(_, _)
Pow(b, e) == IF e = 0 THEN 1 ELSE b * Pow(b, e - 1)

----------------------------------------------------------------------------
(* Strings *)

Whitespace == {" "}

\* str.upper on one character
UpperChar(c) ==
    CASE c = "a" -> "A"
      [] c = "c" -> "C"
      [] c = "g" -> "G"
      [] c = "t" -> "T"
      [] c = "n" -> "N"
      [] OTHER -> c

upper(s) == [i \in 1..Len(s) |-> UpperChar(s[i])]

RECURSIVE lstrip(_)
lstrip(s) == IF s # <<>> /\ Head(s) \in Whitespace THEN lstrip(Tail(s)) ELSE s

RECURSIVE rstrip(_)
rstrip(s) ==
    IF s # <<>> /\ s[Len(s)] \in Whitespace THEN rstrip(SubSeq(s, 1, Len(s) - 1)) ELSE s

strip(s) == rstrip(lstrip(s))

\* str.count for a one-character pattern
count(s, c) == Cardinality({i \in 1..Len(s) : s[i] = c})

\* ord() of the quality characters
ord(q) ==
    CASE q = "I" -> 73
      [] q = "?" -> 63
      [] q = "5" -> 53
      [] q = "+" -> 43
      [] q = "!" -> 33

----------------------------------------------------------------------------
(* collections.Counter: a function from the keys seen to their counts *)

EmptyCounter == [k \in {} |-> 0]

\* mutant: counter[key] = 1, the count of a key seen again is not raised
Incr_reset(counter, key) ==
    [k \in DOMAIN counter \cup {key} |-> IF k = key THEN 1 ELSE counter[k]]

Incr(counter, key) ==
    IF key \in DOMAIN counter
    THEN [counter EXCEPT ![key] = @ + 1]
    ELSE [k \in DOMAIN counter \cup {key} |->
             IF k = key THEN 1 ELSE counter[k]]

RECURSIVE SumOver(_, _)
SumOver(counter, keys) ==
    IF keys = {} THEN 0
    ELSE LET k == CHOOSE x \in keys : TRUE
         IN counter[k] + SumOver(counter, keys \ {k})

\* sum(counter.values())
SumValues(counter) == SumOver(counter, DOMAIN counter)

\* Counter(counter.values()).get(n, 0)
frequency_counts(counter, n) == Cardinality({k \in DOMAIN counter : counter[k] = n})

RECURSIVE SumSeq(_)
SumSeq(s) == IF s = <<>> THEN 0 ELSE Head(s) + SumSeq(Tail(s))

----------------------------------------------------------------------------
(* The inputs: files, and where reading them fails *)

HeaderLine == <<"@">>
SeparatorLine == <<"+">>
SequenceLines == { <<" ">>, <<"A", "T">>, <<"a", "t">>, <<"G", "G">> }
QualityLines == { <<"I">>, <<"+">> }

\* what line number n of a FASTQ file may hold
LinesAt(n) ==
    CASE n % 4 = 1 -> {HeaderLine}
      [] n % 4 = 2 -> SequenceLines
      [] n % 4 = 3 -> {SeparatorLine}
      [] OTHER -> QualityLines

RECURSIVE FilesOfLen(_)
FilesOfLen(n) ==
    IF n = 0 THEN {<<>>}
    ELSE {Append(f, l) : f \in FilesOfLen(n - 1), l \in LinesAt(n)}

\* every file of at most MaxReads records, the last record whole or cut short
\* after its sequence line (no function here reads the header or separator
\* lines, so a cut after line 1 or 3 of a record adds nothing)
Files == UNION {FilesOfLen(n) : n \in {m \in 0..(4 * MaxReads) : m % 2 = 0}}

\* the line numbers of the sequence lines among the first n lines
SequenceLineNums(n) == {i \in 1..n : i % 4 = 2}

\* gzip.open or the iteration over the file raises after `fail` lines were
\* delivered (0: the file cannot be opened, Len(file): the error shows at the
\* end of the stream); Len(file) + 1: the whole file is read without error
NoFail(file) == Len(file) + 1
FailPoints(file) == 0..(Len(file) + 1)
Failed(file, fail) == fail <= Len(file)
Delivered(file, fail) == IF Failed(file, fail) THEN SubSeq(file, 1, fail) ELSE file

----------------------------------------------------------------------------
(* LibraryComplexityMetrics.calculate_sequence_complexity *)

\* mutant: the tally is not created anew, a second call goes on from the
\* tally the call before it left
ComplexityLocals0_kept ==
    IF "quality_scores" \in DOMAIN locals
    THEN locals
    ELSE [sequence_counts |-> EmptyCounter, total_bases |-> 0, gc_count |-> 0,
          quality_scores |-> <<>>]

\* the locals before the first line is read
ComplexityLocals0 ==
    [sequence_counts |-> EmptyCounter, total_bases |-> 0, gc_count |-> 0,
     quality_scores |-> <<>>]

\* one iteration of `for line in f`, line_num already incremented
ComplexityLine(st, line_num, line) ==
    IF line_num % 4 = 2 THEN
        LET sequence == upper(strip(line)) IN
        [st EXCEPT !.sequence_counts = Incr(@, sequence),
                   !.gc_count = @ + count(sequence, "G") + count(sequence, "C"),
                   !.total_bases = @ + Len(sequence)]
    ELSE IF line_num % 4 = 0 THEN
        LET quality == strip(line) IN
        [st EXCEPT !.quality_scores = @ \o [i \in 1..Len(quality) |-> ord(quality[i]) - 33]]
    ELSE st

RECURSIVE ComplexityLoop(_, _)
ComplexityLoop(lines, n) ==
    IF n = 0 THEN ComplexityLocals0
    ELSE ComplexityLine(ComplexityLoop(lines, n - 1), n, lines[n])

\* the tally of the lines delivered before the end of the loop or the exception
ComplexityTally(lines) == ComplexityLoop(lines, Len(lines))

\* mutant: entropy += p * log2(p)
EntropyTerm_added(r, cnt, total_reads) ==
    Rat(r[1] * Pow(cnt, cnt), r[2] * Pow(total_reads, cnt))

\* entropy -= p * log2(p) with p = cnt / total_reads, kept as the rational r
\* with entropy = log2(r) / total_reads:  -p*log2(p) = log2((total/cnt)^cnt) / total
EntropyTerm(r, cnt, total_reads) ==
    Rat(r[1] * Pow(total_reads, cnt), r[2] * Pow(cnt, cnt))

RECURSIVE EntropyLoop(_, _, _)
EntropyLoop(counter, keys, total_reads) ==
    IF keys = {} THEN <<1, 1>>
    ELSE LET k == CHOOSE x \in keys : TRUE
         IN EntropyTerm(EntropyLoop(counter, keys \ {k}, total_reads),
                        counter[k], total_reads)

\* entropy 0.0 is log2(1)
EntropyZero == <<1, 1>>
EntropyIsZero(e) == e[1] = e[2]
EntropyIsPositive(e) == e[1] > e[2]

\* mutant: the thresholds taken exclusively (mean > 30, mean > 20)
quality_assessment_exclusive(quality_scores) ==
    IF quality_scores = <<>> THEN "unknown"
    ELSE IF SumSeq(quality_scores) > 30 * Len(quality_scores) THEN "high"
    ELSE IF SumSeq(quality_scores) > 20 * Len(quality_scores) THEN "medium"
    ELSE "low"

quality_assessment(quality_scores) ==
    IF quality_scores = <<>> THEN "unknown"
    ELSE IF SumSeq(quality_scores) >= 30 * Len(quality_scores) THEN "high"
    ELSE IF SumSeq(quality_scores) >= 20 * Len(quality_scores) THEN "medium"
    ELSE "low"

\* mutant: the duplicates counted as the sequences seen more than once
DuplicateReads_perSequence(total_reads, unique_sequences) ==
    IF total_reads > unique_sequences THEN unique_sequences ELSE 0

\* duplicate_reads = total_reads - unique_sequences
DuplicateReads(total_reads, unique_sequences) == total_reads - unique_sequences

\* mutant: the rate taken over the distinct sequences
DuplicationRate_overUnique(duplicate_reads, total_reads) ==
    IF total_reads > 0
    THEN Rat(duplicate_reads * 100, total_reads - duplicate_reads)
    ELSE RatZero

\* (duplicate_reads / total_reads) * 100
DuplicationRate(duplicate_reads, total_reads) ==
    IF total_reads > 0 THEN Rat(duplicate_reads * 100, total_reads) ELSE RatZero

\* mutant: the share of distinct sequences, not as a percentage
ComplexityScore_fraction(unique_sequences, total_reads) ==
    IF total_reads > 0 THEN Rat(unique_sequences, total_reads) ELSE RatZero

\* (unique_sequences / total_reads) * 100
ComplexityScore(unique_sequences, total_reads) ==
    IF total_reads > 0 THEN Rat(unique_sequences * 100, total_reads) ELSE RatZero

\* mutant: no percentage, the G+C count per two bases
GcContent_perPair(gc_count, total_bases) ==
    IF total_bases > 0 THEN Rat(gc_count * 200, total_bases) ELSE RatZero

\* (gc_count / total_bases) * 100
GcContent(gc_count, total_bases) ==
    IF total_bases > 0 THEN Rat(gc_count * 100, total_bases) ELSE RatZero

\* result_dict as initialised, and as returned when the try block raised
ComplexityDefault(name) ==
    [file |-> name, total_reads |-> 0, unique_sequences |-> 0, duplicate_reads |-> 0,
     duplication_rate |-> RatZero, complexity_score |-> RatZero,
     entropy |-> EntropyZero, gc_content |-> RatZero, quality_assessment |-> "unknown"]

\* the "Calculate metrics" part, from the locals the loop left
ComplexityMetrics(name, st) ==
    LET total_reads == SumValues(st.sequence_counts)
        unique_sequences == Cardinality(DOMAIN st.sequence_counts)
        duplicate_reads == DuplicateReads(total_reads, unique_sequences)
    IN [file |-> name,
        total_reads |-> total_reads,
        unique_sequences |-> unique_sequences,
        duplicate_reads |-> duplicate_reads,
        duplication_rate |-> DuplicationRate(duplicate_reads, total_reads),
        complexity_score |-> ComplexityScore(unique_sequences, total_reads),
        entropy |->
            IF total_reads > 0
            THEN EntropyLoop(st.sequence_counts, DOMAIN st.sequence_counts, total_reads)
            ELSE EntropyZero,
        gc_content |-> GcContent(st.gc_count, st.total_bases),
        quality_assessment |-> quality_assessment(st.quality_scores)]

\* mutant: after an exception the counts tallied so far are written out
calculate_sequence_complexity_partial(name, file, fail) ==
    ComplexityMetrics(name, ComplexityTally(Delivered(file, fail)))

calculate_sequence_complexity(name, file, fail) ==
    IF Failed(file, fail)
    THEN ComplexityDefault(name)
    ELSE ComplexityMetrics(name, ComplexityTally(file))

----------------------------------------------------------------------------
(* LibraryComplexityMetrics.estimate_library_size *)

LibraryLine(sequence_counts, line_num, line) ==
    IF line_num % 4 = 2
    THEN Incr(sequence_counts, upper(strip(line)))
    ELSE sequence_counts

RECURSIVE LibraryLoop(_, _)
LibraryLoop(lines, n) ==
    IF n = 0 THEN EmptyCounter
    ELSE LibraryLine(LibraryLoop(lines, n - 1), n, lines[n])

LibraryTally(lines) == LibraryLoop(lines, Len(lines))

\* mutant: a library that could not be estimated counts as fully covered
LibraryDefault_fullCoverage(name) ==
    [file |-> name, observed_species |-> 0, singleton_species |-> 0,
     doubleton_species |-> 0, chao1_estimate |-> RatZero, coverage_estimate |-> <<100, 1>>]

LibraryDefault(name) ==
    [file |-> name, observed_species |-> 0, singleton_species |-> 0,
     doubleton_species |-> 0, chao1_estimate |-> RatZero, coverage_estimate |-> RatZero]

\* mutant: the correction term alone, observed_species left out
chao1_correctionOnly(observed_species, singleton_species, doubleton_species) ==
    IF doubleton_species > 0
    THEN Rat(singleton_species * singleton_species, 2 * doubleton_species)
    ELSE Rat(singleton_species * (singleton_species - 1), 2)

\* mutant: the classic form singletons^2 / (2 * (doubletons + 1)) in both cases
chao1_classic(observed_species, singleton_species, doubleton_species) ==
    RatAdd(RatOfInt(observed_species),
           Rat(singleton_species * singleton_species, 2 * (doubleton_species + 1)))

\* Chao1 estimator for species richness
chao1(observed_species, singleton_species, doubleton_species) ==
    IF doubleton_species > 0
    THEN RatAdd(RatOfInt(observed_species),
                Rat(singleton_species * singleton_species, 2 * doubleton_species))
    ELSE RatAdd(RatOfInt(observed_species),
                Rat(singleton_species * (singleton_species - 1), 2))

\* mutant: no guard, the coverage of no read at all is 100
CoverageEstimate_unguarded(singleton_species, total_reads) ==
    IF total_reads > 0
    THEN Rat((total_reads - singleton_species) * 100, total_reads)
    ELSE <<100, 1>>

\* Good's coverage: (1 - singleton_species / total_reads) * 100
CoverageEstimate(singleton_species, total_reads) ==
    IF total_reads > 0
    THEN Rat((total_reads - singleton_species) * 100, total_reads)
    ELSE RatZero

LibraryMetrics(name, sequence_counts) ==
    LET observed_species == Cardinality(DOMAIN sequence_counts)
        singleton_species == frequency_counts(sequence_counts, 1)
        doubleton_species == frequency_counts(sequence_counts, 2)
        total_reads == SumValues(sequence_counts)
    IN [file |-> name,
        observed_species |-> observed_species,
        singleton_species |-> singleton_species,
        doubleton_species |-> doubleton_species,
        chao1_estimate |-> chao1(observed_species, singleton_species, doubleton_species),
        coverage_estimate |-> CoverageEstimate(singleton_species, total_reads)]

estimate_library_size(name, file, fail) ==
    IF Failed(file, fail)
    THEN LibraryDefault(name)
    ELSE LibraryMetrics(name, LibraryTally(file))

----------------------------------------------------------------------------
(* ContaminationScreening.kmer_contamination_detection *)

KmerLocals0 == [kmer_counts |-> EmptyCounter, total_kmers |-> 0]

\* mutant: range(len(sequence) - kmer_size), the last window left out
RangeLen_lastLeftOut(n) == IF n > 1 THEN n - 1 ELSE 0

\* len(range(n))
RangeLen(n) == IF n > 0 THEN n ELSE 0

\* the first n iterations of `for i in range(len(sequence) - kmer_size + 1)`;
\* iteration i = n - 1 takes sequence[i:i+kmer_size]
RECURSIVE KmerWindows(_, _, _, _)
KmerWindows(st, sequence, kmer_size, n) ==
    IF n = 0 THEN st
    ELSE LET prev == KmerWindows(st, sequence, kmer_size, n - 1)
             kmer == SubSeq(sequence, n, n + kmer_size - 1)
         IN [kmer_counts |-> Incr(prev.kmer_counts, kmer),
             total_kmers |-> prev.total_kmers + 1]

KmerLine(st, line_num, line, kmer_size) ==
    IF line_num % 4 = 2
    THEN LET sequence == strip(line)
         IN KmerWindows(st, sequence, kmer_size, RangeLen(Len(sequence) - kmer_size + 1))
    ELSE st

RECURSIVE KmerLoop(_, _, _)
KmerLoop(lines, n, kmer_size) ==
    IF n = 0 THEN KmerLocals0
    ELSE KmerLine(KmerLoop(lines, n - 1, kmer_size), n, lines[n], kmer_size)

KmerTally(lines, kmer_size) == KmerLoop(lines, Len(lines), kmer_size)

KmerDefault(name, kmer_size) ==
    [file |-> name, kmer_size |-> kmer_size, unique_kmers |-> 0, duplicate_kmers |-> 0,
     kmer_complexity |-> RatZero, potential_contamination |-> FALSE]

\* mutant: the ratio upside down
KmerComplexity_inverted(unique_kmers, total_kmers) ==
    IF unique_kmers > 0 THEN Rat(total_kmers, unique_kmers) ELSE RatZero

\* unique_kmers / total_kmers if total_kmers > 0 else 0.0
KmerComplexity(unique_kmers, total_kmers) ==
    IF total_kmers > 0 THEN Rat(unique_kmers, total_kmers) ELSE RatZero

\* mutant: the flag raised below 0.5 instead of 0.7
KmerMetrics_halfThreshold(name, kmer_size, st) ==
    LET unique_kmers == Cardinality(DOMAIN st.kmer_counts)
        kmer_complexity == KmerComplexity(unique_kmers, st.total_kmers)
    IN [file |-> name, kmer_size |-> kmer_size,
        unique_kmers |-> unique_kmers,
        duplicate_kmers |->
            Cardinality({k \in DOMAIN st.kmer_counts : st.kmer_counts[k] > 1}),
        kmer_complexity |-> kmer_complexity,
        potential_contamination |-> RatLt(kmer_complexity, <<1, 2>>)]

KmerMetrics(name, kmer_size, st) ==
    LET unique_kmers == Cardinality(DOMAIN st.kmer_counts)
        duplicate_kmers ==
            Cardinality({k \in DOMAIN st.kmer_counts : st.kmer_counts[k] > 1})
        kmer_complexity == KmerComplexity(unique_kmers, st.total_kmers)
    IN [file |-> name, kmer_size |-> kmer_size,
        unique_kmers |-> unique_kmers,
        duplicate_kmers |-> duplicate_kmers,
        kmer_complexity |-> kmer_complexity,
        potential_contamination |-> RatLt(kmer_complexity, <<7, 10>>)]

kmer_contamination_detection(name, file, kmer_size, fail) ==
    IF Failed(file, fail)
    THEN KmerDefault(name, kmer_size)
    ELSE KmerMetrics(name, kmer_size, KmerTally(file, kmer_size))

----------------------------------------------------------------------------
(* StrandSpecificityDetection.infer_strandedness_from_fastq *)

\* "Sample first 100k reads"
SampleCap == 100000

StrandLocals0 ==
    [forward_gc |-> 0, reverse_gc |-> 0, forward_at |-> 0, reverse_at |-> 0,
     total_reads |-> 0, stopped |-> FALSE]

\* mutant: the loop is left one read late (total_reads > 100000)
StrandLine_lateBreak(st, line_num, line) ==
    IF st.stopped \/ line_num % 4 # 2 THEN st
    ELSE LET sequence == upper(strip(line))
             total_reads == st.total_reads + 1
             gc_count == count(sequence, "G") + count(sequence, "C")
             at_count == count(sequence, "A") + count(sequence, "T")
             even == total_reads % 2 = 0
         IN [forward_gc |-> st.forward_gc + (IF even THEN gc_count ELSE 0),
             forward_at |-> st.forward_at + (IF even THEN at_count ELSE 0),
             reverse_gc |-> st.reverse_gc + (IF even THEN 0 ELSE gc_count),
             reverse_at |-> st.reverse_at + (IF even THEN 0 ELSE at_count),
             total_reads |-> total_reads,
             stopped |-> total_reads > SampleCap]

\* one iteration of `for line in f`; stopped: the loop was left by `break`
StrandLine(st, line_num, line) ==
    IF st.stopped \/ line_num % 4 # 2 THEN st
    ELSE LET sequence == upper(strip(line))
             total_reads == st.total_reads + 1
             gc_count == count(sequence, "G") + count(sequence, "C")
             at_count == count(sequence, "A") + count(sequence, "T")
             even == total_reads % 2 = 0
         IN [forward_gc |-> st.forward_gc + (IF even THEN gc_count ELSE 0),
             forward_at |-> st.forward_at + (IF even THEN at_count ELSE 0),
             reverse_gc |-> st.reverse_gc + (IF even THEN 0 ELSE gc_count),
             reverse_at |-> st.reverse_at + (IF even THEN 0 ELSE at_count),
             total_reads |-> total_reads,
             stopped |-> total_reads >= SampleCap]

RECURSIVE StrandLoop(_, _)
StrandLoop(lines, n) ==
    IF n = 0 THEN StrandLocals0
    ELSE StrandLine(StrandLoop(lines, n - 1), n, lines[n])

StrandTally(lines) == StrandLoop(lines, Len(lines))

StrandDefault(name) ==
    [file |-> name, method |-> "kmer_analysis", strandedness |-> "unknown",
     gc_skew |-> RatZero, at_skew |-> RatZero, confidence |-> "low"]

\* mutant: the thresholds taken inclusively (>= 0.1, >= 0.2, <= 0.05)
StrandMetrics_inclusive(name, st) ==
    LET gc_total == st.forward_gc + st.reverse_gc
        at_total == st.forward_at + st.reverse_at
        r0 == StrandDefault(name)
        r1 == IF gc_total > 0
              THEN [r0 EXCEPT !.gc_skew = Rat(st.forward_gc - st.reverse_gc, gc_total)]
              ELSE r0
        r2 == IF at_total > 0
              THEN [r1 EXCEPT !.at_skew = Rat(st.forward_at - st.reverse_at, at_total)]
              ELSE r1
        skew_magnitude == RatAbs(r2.gc_skew)
    IN IF gc_total = 0 THEN r2
       ELSE IF RatLeq(<<1, 10>>, skew_magnitude)
       THEN [r2 EXCEPT !.strandedness = "stranded",
                       !.confidence =
                           IF RatLeq(<<2, 10>>, skew_magnitude) THEN "high" ELSE "medium"]
       ELSE [r2 EXCEPT !.strandedness = "unstranded",
                       !.confidence =
                           IF RatLeq(skew_magnitude, <<5, 100>>) THEN "high" ELSE "medium"]

\* the part after the loop.  gc_skew is assigned only when forward_gc +
\* reverse_gc > 0; abs(gc_skew) on the unassigned local raises
\* UnboundLocalError, which the except clause absorbs: the record is returned
\* as filled in so far.
StrandMetrics(name, st) ==
    LET gc_total == st.forward_gc + st.reverse_gc
        at_total == st.forward_at + st.reverse_at
        r0 == StrandDefault(name)
        r1 == IF gc_total > 0
              THEN [r0 EXCEPT !.gc_skew = Rat(st.forward_gc - st.reverse_gc, gc_total)]
              ELSE r0
        r2 == IF at_total > 0
              THEN [r1 EXCEPT !.at_skew = Rat(st.forward_at - st.reverse_at, at_total)]
              ELSE r1
        skew_magnitude == RatAbs(r2.gc_skew)
    IN IF gc_total = 0 THEN r2
       ELSE IF RatLt(<<1, 10>>, skew_magnitude)
       THEN [r2 EXCEPT !.strandedness = "stranded",
                       !.confidence =
                           IF RatLt(<<2, 10>>, skew_magnitude) THEN "high" ELSE "medium"]
       ELSE [r2 EXCEPT !.strandedness = "unstranded",
                       !.confidence =
                           IF RatLt(skew_magnitude, <<5, 100>>) THEN "high" ELSE "medium"]

infer_strandedness_from_fastq(name, file, fail) ==
    IF Failed(file, fail)
    THEN StrandDefault(name)
    ELSE StrandMetrics(name, StrandTally(file))

----------------------------------------------------------------------------
(* Spec: the analysis functions applied to one file *)

FileName == "sample.fastq.gz"
NoCall == [fn |-> "none", kmer_size |-> 0, raised |-> FALSE]
NoRecord == [file |-> "none"]
NoLocals == [total_reads |-> 0]

InitPoolIdle ==
    /\ driver = "none"
    /\ max_workers = 1
    /\ fastq_files = <<>>
    /\ main_pc = "idle"
    /\ fut = <<>>
    /\ task_pc = <<>>
    /\ task_result = <<>>
    /\ task_fail = <<>>
    /\ results = <<>>
    /\ contaminated_samples = <<>>
    /\ yielded = {}
    /\ completed = 0
    /\ report = <<>>
    /\ qc_results = <<>>
    /\ failed_qc = <<>>

Init ==
    /\ fastq_file \in Files
    /\ call = NoCall
    /\ ret = NoRecord
    /\ locals = NoLocals
    /\ InitPoolIdle

CalcComplexity ==
    \E fail \in FailPoints(fastq_file) :
        /\ call = NoCall
        /\ call' = [fn |-> "calculate_sequence_complexity", kmer_size |-> 0,
                    raised |-> Failed(fastq_file, fail)]
        /\ ret' = calculate_sequence_complexity(FileName, fastq_file, fail)
        /\ locals' = ComplexityTally(Delivered(fastq_file, fail))
        /\ UNCHANGED <<fastq_file, pool_vars>>

EstimateLibrary ==
    \E fail \in FailPoints(fastq_file) :
        /\ call = NoCall
        /\ call' = [fn |-> "estimate_library_size", kmer_size |-> 0,
                    raised |-> Failed(fastq_file, fail)]
        /\ ret' = estimate_library_size(FileName, fastq_file, fail)
        /\ locals' = [sequence_counts |-> LibraryTally(Delivered(fastq_file, fail))]
        /\ UNCHANGED <<fastq_file, pool_vars>>

KmerDetect ==
    \E kmer_size \in 1..MaxKmer, fail \in FailPoints(fastq_file) :
        /\ call = NoCall
        /\ call' = [fn |-> "kmer_contamination_detection", kmer_size |-> kmer_size,
                    raised |-> Failed(fastq_file, fail)]
        /\ ret' = kmer_contamination_detection(FileName, fastq_file, kmer_size, fail)
        /\ locals' = KmerTally(Delivered(fastq_file, fail), kmer_size)
        /\ UNCHANGED <<fastq_file, pool_vars>>

InferStrand ==
    \E fail \in FailPoints(fastq_file) :
        /\ call = NoCall
        /\ call' = [fn |-> "infer_strandedness_from_fastq", kmer_size |-> 0,
                    raised |-> Failed(fastq_file, fail)]
        /\ ret' = infer_strandedness_from_fastq(FileName, fastq_file, fail)
        /\ locals' = StrandTally(Delivered(fastq_file, fail))
        /\ UNCHANGED <<fastq_file, pool_vars>>

Next ==
    \/ CalcComplexity
    \/ EstimateLibrary
    \/ KmerDetect
    \/ InferStrand

Spec == Init /\ [][Next]_vars

----------------------------------------------------------------------------
(* SpecPool: run_complexity_analysis / run_contamination_screening /        *)
(* run_strand_detection, process_sample on the worker pool, and the report *)

Drivers == {"complexity", "contamination", "strand"}

\* kmer_size: int = 31
DefaultKmerSize == 31

\* the contents of the files find_fastq_files comes upon: three reads, two of
\* which differ in letter case only
PoolContents ==
    { <<HeaderLine, <<"A", "T">>, SeparatorLine, <<"I">>,
        HeaderLine, <<"g", "g">>, SeparatorLine, <<"+">>,
        HeaderLine, <<"a", "t">>, SeparatorLine, <<"I">>>> }

FileIds == DOMAIN fastq_files

\* a dict literal {} and dict.get
EmptyDict == <<>>
Get(d, key, default) == IF key \in DOMAIN d THEN d[key] ELSE default

\* what the model remembers of a read that raised: the function, and whether
\* a sequence line had been tallied before
ReadFailure(fn, fail) == [fn |-> fn, tallied |-> SequenceLineNums(fail) # {}]
NoteFailure(i, fn, fail) ==
    IF Failed(fastq_files[i], fail)
    THEN [task_fail EXCEPT ![i] = @ \cup {ReadFailure(fn, fail)}]
    ELSE task_fail

InitPool ==
    /\ driver \in Drivers
    /\ max_workers \in 1..MaxWorkers
    /\ fastq_files \in UNION {[1..n -> PoolContents] : n \in 0..MaxFiles}
    /\ main_pc = "find_fastq_files"
    /\ fut = [i \in FileIds |-> "unsubmitted"]
    /\ task_pc = [i \in FileIds |-> "none"]
    /\ task_result = [i \in FileIds |-> EmptyDict]
    /\ task_fail = [i \in FileIds |-> {}]
    /\ results = <<>>
    /\ contaminated_samples = <<>>
    /\ yielded = {}
    /\ completed = 0
    /\ report = <<>>
    /\ qc_results = <<>>
    /\ failed_qc = <<>>
    /\ fastq_file = <<>>
    /\ call = NoCall
    /\ ret = NoRecord
    /\ locals = NoLocals

\* `if not fastq_files: return`
NoFilesFound ==
    /\ main_pc = "find_fastq_files"
    /\ fastq_files = <<>>
    /\ main_pc' = "returned"
    /\ UNCHANGED <<engine_vars, driver, max_workers, fastq_files, fut, task_pc, task_result, task_fail,
                   results, contaminated_samples, yielded, completed, report>>

FilesFound ==
    /\ main_pc = "find_fastq_files"
    /\ fastq_files # <<>>
    /\ main_pc' = "submit"
    /\ UNCHANGED <<engine_vars, driver, max_workers, fastq_files, fut, task_pc, task_result, task_fail,
                   results, contaminated_samples, yielded, completed, report>>

\* executor.submit(self.process_sample, fastq_file), in the order of the list
Submit(i) ==
    /\ main_pc = "submit"
    /\ fut[i] = "unsubmitted"
    /\ \A j \in FileIds : j < i => fut[j] # "unsubmitted"
    /\ fut' = [fut EXCEPT ![i] = "pending"]
    /\ main_pc' = IF \A j \in FileIds \ {i} : fut[j] # "unsubmitted"
                  THEN "as_completed" ELSE "submit"
    /\ UNCHANGED <<engine_vars, driver, max_workers, fastq_files, task_pc, task_result, task_fail,
                   results, contaminated_samples, yielded, completed, report>>

\* the executor's threads take the work items in the order of submission,
\* at most max_workers at a time
FirstStep == IF driver = "complexity" THEN "complexity" ELSE "mkdir"

StartTask(i) ==
    /\ fut[i] = "pending"
    /\ \A j \in FileIds : j < i => fut[j] \notin {"unsubmitted", "pending"}
    /\ Cardinality({j \in FileIds : fut[j] = "running"}) < max_workers
    /\ fut' = [fut EXCEPT ![i] = "running"]
    /\ task_pc' = [task_pc EXCEPT ![i] = FirstStep]
    /\ task_result' = [task_result EXCEPT ![i] =
           IF driver = "complexity"
           THEN [file |-> i, path |-> i, complexity_metrics |-> EmptyDict,
                 library_size_estimate |-> EmptyDict]
           ELSE @]
    /\ UNCHANGED <<engine_vars, driver, max_workers, fastq_files, main_pc, task_fail, results,
                   contaminated_samples, yielded, completed, report>>

\* 07/08 process_sample: output_dir.mkdir(parents=True, exist_ok=True) stands
\* outside every try block; when it raises (OSError) process_sample is left
\* and the exception is stored in the future
Mkdir(i) ==
    /\ task_pc[i] = "mkdir"
    /\ \E ok \in BOOLEAN :
        IF ok
        THEN /\ task_pc' = [task_pc EXCEPT ![i] =
                    IF driver = "contamination" THEN "check_kraken2" ELSE "infer"]
             /\ task_result' = [task_result EXCEPT ![i] =
                    IF driver = "contamination"
                    THEN [file |-> i, path |-> i, kraken2_analysis |-> EmptyDict,
                          kmer_analysis |-> EmptyDict]
                    ELSE [file |-> i, path |-> i, rseqc_analysis |-> EmptyDict,
                          kmer_analysis |-> EmptyDict]]
             /\ fut' = fut
        ELSE /\ task_pc' = [task_pc EXCEPT ![i] = "exit"]
             /\ fut' = [fut EXCEPT ![i] = "raised"]
             /\ task_result' = task_result
    /\ UNCHANGED <<engine_vars, driver, max_workers, fastq_files, main_pc, task_fail, results,
                   contaminated_samples, yielded, completed, report>>

\* 09 process_sample: complexity = self.calculate_sequence_complexity(fastq_file)
Complexity(i) ==
    /\ task_pc[i] = "complexity"
    /\ \E fail \in FailPoints(fastq_files[i]) :
        /\ task_result' = [task_result EXCEPT ![i].complexity_metrics =
               calculate_sequence_complexity(i, fastq_files[i], fail)]
        /\ task_fail' = NoteFailure(i, "calculate_sequence_complexity", fail)
    /\ task_pc' = [task_pc EXCEPT ![i] = "library"]
    /\ UNCHANGED <<engine_vars, driver, max_workers, fastq_files, main_pc, fut, results,
                   contaminated_samples, yielded, completed, report>>

\* 09 process_sample: library_size = self.estimate_library_size(fastq_file)
Library(i) ==
    /\ task_pc[i] = "library"
    /\ \E fail \in FailPoints(fastq_files[i]) :
        /\ task_result' = [task_result EXCEPT ![i].library_size_estimate =
               estimate_library_size(i, fastq_files[i], fail)]
        /\ task_fail' = NoteFailure(i, "estimate_library_size", fail)
    /\ task_pc' = [task_pc EXCEPT ![i] = "append"]
    /\ UNCHANGED <<engine_vars, driver, max_workers, fastq_files, main_pc, fut, results,
                   contaminated_samples, yielded, completed, report>>

\* 07 process_sample: if self.check_kraken2_installation()
CheckKraken2(i) ==
    /\ task_pc[i] = "check_kraken2"
    /\ \E installed \in BOOLEAN :
        task_pc' = [task_pc EXCEPT ![i] = IF installed THEN "run_kraken2" ELSE "kmer"]
    /\ UNCHANGED <<engine_vars, driver, max_workers, fastq_files, main_pc, fut, task_result, task_fail,
                   results, contaminated_samples, yielded, completed, report>>

\* what Kraken2 may report as the share of Homo sapiens
HumanPercentages == {95, 89}

\* run_kraken2_analysis: the record for a run that failed (non-zero return
\* code, timeout, exception) and for a run that reported human_pct; the
\* species tables are left out
KrakenFailed(name) ==
    [file |-> name, success |-> FALSE, contamination_level |-> "unknown",
     human_percentage |-> 0]
KrakenReported(name, human_pct) ==
    [file |-> name, success |-> TRUE,
     contamination_level |->
         IF human_pct >= 95 THEN "pass" ELSE IF human_pct >= 90 THEN "warn" ELSE "fail",
     human_percentage |-> human_pct]

\* 07 process_sample: the Kraken2 branch; the dict appended to
\* contaminated_samples is the task's `result` object itself
RunKraken2(i) ==
    /\ task_pc[i] = "run_kraken2"
    /\ \E kraken_result \in {KrakenFailed(i)} \cup
                            {KrakenReported(i, h) : h \in HumanPercentages} :
        /\ task_result' = [task_result EXCEPT ![i].kraken2_analysis = kraken_result]
        /\ contaminated_samples' =
               IF kraken_result.contamination_level \in {"warn", "fail"}
               THEN Append(contaminated_samples, i)
               ELSE contaminated_samples
    /\ task_pc' = [task_pc EXCEPT ![i] = "kmer"]
    /\ UNCHANGED <<engine_vars, driver, max_workers, fastq_files, main_pc, fut, task_fail, results,
                   yielded, completed, report>>

\* 07 process_sample: kmer_result = self.kmer_contamination_detection(...)
Kmer(i) ==
    /\ task_pc[i] = "kmer"
    /\ \E fail \in FailPoints(fastq_files[i]) :
        /\ task_result' = [task_result EXCEPT ![i].kmer_analysis =
               kmer_contamination_detection(i, fastq_files[i], DefaultKmerSize, fail)]
        /\ task_fail' = NoteFailure(i, "kmer_contamination_detection", fail)
    /\ task_pc' = [task_pc EXCEPT ![i] = "append"]
    /\ UNCHANGED <<engine_vars, driver, max_workers, fastq_files, main_pc, fut, results,
                   contaminated_samples, yielded, completed, report>>

\* 08 process_sample: kmer_result = self.infer_strandedness_from_fastq(fastq_file)
Infer(i) ==
    /\ task_pc[i] = "infer"
    /\ \E fail \in FailPoints(fastq_files[i]) :
        /\ task_result' = [task_result EXCEPT ![i].kmer_analysis =
               infer_strandedness_from_fastq(i, fastq_files[i], fail)]
        /\ task_fail' = NoteFailure(i, "infer_strandedness_from_fastq", fail)
    /\ task_pc' = [task_pc EXCEPT ![i] = "append"]
    /\ UNCHANGED <<engine_vars, driver, max_workers, fastq_files, main_pc, fut, results,
                   contaminated_samples, yielded, completed, report>>

\* self.results.append(result)
AppendResult(i) ==
    /\ task_pc[i] = "append"
    /\ results' = Append(results, task_result[i])
    /\ task_pc' = [task_pc EXCEPT ![i] = "return"]
    /\ UNCHANGED <<engine_vars, driver, max_workers, fastq_files, main_pc, fut, task_result, task_fail,
                   contaminated_samples, yielded, completed, report>>

\* return result: the worker sets the future's result
Return(i) ==
    /\ task_pc[i] = "return"
    /\ task_pc' = [task_pc EXCEPT ![i] = "exit"]
    /\ fut' = [fut EXCEPT ![i] = "finished"]
    /\ UNCHANGED <<engine_vars, driver, max_workers, fastq_files, main_pc, task_result, task_fail,
                   results, contaminated_samples, yielded, completed, report>>

\* for future in as_completed(futures): future.result() returns, or raises
\* what process_sample raised, which is logged and dropped
Yield(i) ==
    /\ main_pc = "as_completed"
    /\ i \notin yielded
    /\ fut[i] \in {"finished", "raised"}
    /\ yielded' = yielded \cup {i}
    /\ completed' = IF fut[i] = "finished" THEN completed + 1 ELSE completed
    /\ UNCHANGED <<engine_vars, driver, max_workers, fastq_files, main_pc, fut, task_pc, task_result,
                   task_fail, results, contaminated_samples, report>>

\* mutant: the run method returns without waiting for its futures
ExitPool_noJoin ==
    /\ main_pc = "as_completed"
    /\ main_pc' = "returned"
    /\ UNCHANGED <<engine_vars, driver, max_workers, fastq_files, fut, task_pc, task_result, task_fail,
                   results, contaminated_samples, yielded, completed, report>>

\* the loop ends when every future was yielded; leaving the `with` block
\* joins the workers, and the run method returns
ExitPool ==
    /\ main_pc = "as_completed"
    /\ yielded = FileIds
    /\ main_pc' = "returned"
    /\ UNCHANGED <<engine_vars, driver, max_workers, fastq_files, fut, task_pc, task_result, task_fail,
                   results, contaminated_samples, yielded, completed, report>>

\* the row generate_complexity_report / generate_contamination_report /
\* generate_strand_report builds from one element of self.results
ComplexityRow(result) ==
    LET complexity == result.complexity_metrics
        library == result.library_size_estimate
    IN [file |-> result.file,
        total_reads |-> Get(complexity, "total_reads", 0),
        unique_sequences |-> Get(complexity, "unique_sequences", 0),
        duplication_rate |-> Get(complexity, "duplication_rate", RatZero),
        complexity_score |-> Get(complexity, "complexity_score", RatZero),
        entropy |-> Get(complexity, "entropy", EntropyZero),
        gc_content |-> Get(complexity, "gc_content", RatZero),
        quality_assessment |-> Get(complexity, "quality_assessment", "unknown"),
        chao1_estimate |-> Get(library, "chao1_estimate", RatZero),
        coverage_estimate |-> Get(library, "coverage_estimate", RatZero)]

ContaminationRow(result) ==
    LET kraken == result.kraken2_analysis
        kmer == result.kmer_analysis
    IN [file |-> result.file,
        human_percentage |-> Get(kraken, "human_percentage", 0),
        contamination_level |-> Get(kraken, "contamination_level", "unknown"),
        kmer_complexity |-> Get(kmer, "kmer_complexity", RatZero),
        potential_kmer_contamination |-> Get(kmer, "potential_contamination", FALSE)]

StrandRow(result) ==
    LET kmer == result.kmer_analysis
    IN [file |-> result.file,
        strandedness |-> Get(kmer, "strandedness", "unknown"),
        gc_skew |-> Get(kmer, "gc_skew", RatZero),
        at_skew |-> Get(kmer, "at_skew", RatZero),
        confidence |-> Get(kmer, "confidence", "low")]

ReportRow(result) ==
    CASE driver = "complexity" -> ComplexityRow(result)
      [] driver = "contamination" -> ContaminationRow(result)
      [] OTHER -> StrandRow(result)

\* main(): the report is generated once the run method has returned
GenerateReport ==
    /\ main_pc = "returned"
    /\ report' = [n \in 1..Len(results) |-> ReportRow(results[n])]
    /\ main_pc' = "reported"
    /\ UNCHANGED <<engine_vars, driver, max_workers, fastq_files, fut, task_pc, task_result, task_fail,
                   results, contaminated_samples, yielded, completed>>

\* mutant: HIGH_DUPLICATION from 20 on, MODERATE_DUPLICATION from 10 on
sample_flags_inclusive(row) ==
    (IF RatLeq(<<20, 1>>, row.duplication_rate) THEN <<"HIGH_DUPLICATION">>
     ELSE IF RatLeq(<<10, 1>>, row.duplication_rate) THEN <<"MODERATE_DUPLICATION">>
     ELSE <<>>)
    \o (IF RatLt(row.complexity_score, <<50, 1>>) THEN <<"LOW_COMPLEXITY">> ELSE <<>>)
    \o (IF RatLt(row.gc_content, <<40, 1>>) \/ RatLt(<<60, 1>>, row.gc_content)
        THEN <<"ABNORMAL_GC_CONTENT">> ELSE <<>>)
    \o (IF RatLt(row.coverage_estimate, <<80, 1>>) THEN <<"LOW_COVERAGE">> ELSE <<>>)

\* generate_quality_flags: the list sample_flags built for one row
sample_flags(row) ==
    (IF RatLt(<<20, 1>>, row.duplication_rate) THEN <<"HIGH_DUPLICATION">>
     ELSE IF RatLt(<<10, 1>>, row.duplication_rate) THEN <<"MODERATE_DUPLICATION">>
     ELSE <<>>)
    \o (IF RatLt(row.complexity_score, <<50, 1>>) THEN <<"LOW_COMPLEXITY">> ELSE <<>>)
    \o (IF RatLt(row.gc_content, <<40, 1>>) \/ RatLt(<<60, 1>>, row.gc_content)
        THEN <<"ABNORMAL_GC_CONTENT">> ELSE <<>>)
    \o (IF RatLt(row.coverage_estimate, <<80, 1>>) THEN <<"LOW_COVERAGE">> ELSE <<>>)

\* '|'.join(sample_flags) if sample_flags else 'PASS': the string is kept as
\* the sequence of the names that '|' separates
JoinFlags(flags) == IF flags = <<>> THEN <<"PASS">> ELSE flags

\* report_df['quality_flags'] = flags
WithQualityFlags(row) ==
    [k \in DOMAIN row \cup {"quality_flags"} |->
        IF k = "quality_flags" THEN JoinFlags(sample_flags(row)) ELSE row[k]]

\* 09 main(): report_df = metrics.generate_quality_flags(report_df)
GenerateQualityFlags ==
    /\ main_pc = "reported"
    /\ driver = "complexity"
    /\ report' = [n \in 1..Len(report) |-> WithQualityFlags(report[n])]
    /\ main_pc' = "flagged"
    /\ UNCHANGED <<engine_vars, driver, max_workers, fastq_files, fut, task_pc, task_result, task_fail,
                   results, contaminated_samples, yielded, completed>>

NextPool ==
    \/ NoFilesFound
    \/ FilesFound
    \/ \E i \in FileIds : Submit(i)
    \/ \E i \in FileIds : StartTask(i)
    \/ \E i \in FileIds : Mkdir(i)
    \/ \E i \in FileIds : Complexity(i)
    \/ \E i \in FileIds : Library(i)
    \/ \E i \in FileIds : CheckKraken2(i)
    \/ \E i \in FileIds : RunKraken2(i)
    \/ \E i \in FileIds : Kmer(i)
    \/ \E i \in FileIds : Infer(i)
    \/ \E i \in FileIds : AppendResult(i)
    \/ \E i \in FileIds : Return(i)
    \/ \E i \in FileIds : Yield(i)
    \/ ExitPool
    \/ GenerateReport
    \/ GenerateQualityFlags

SpecPool == InitPool /\ [][NextPool]_vars

----------------------------------------------------------------------------
(* SpecStrand: infer_strandedness_from_fastq on files of two reads whose    *)
(* G+C counts put gc_skew on and around the thresholds 0.05, 0.1 and 0.2    *)

MaxBases == 21         \* a read of SpecStrand holds at most MaxBases G or C bases

\* str * int
Repeat(c, n) == [i \in 1..n |-> c]

\* read 1 (odd, tallied as reverse) holds r times C, read 2 (even, tallied as
\* forward) f times g and at most one T
StrandFiles ==
    { <<HeaderLine, Repeat("C", r), SeparatorLine, <<"I">>,
        HeaderLine, Repeat("g", f) \o Repeat("T", t), SeparatorLine, <<"I">>>> :
        r \in 0..MaxBases, f \in 0..MaxBases, t \in 0..1 }

InitStrand ==
    /\ fastq_file \in StrandFiles
    /\ call = NoCall
    /\ ret = NoRecord
    /\ locals = NoLocals
    /\ InitPoolIdle

NextStrand == InferStrand

SpecStrand == InitStrand /\ [][NextStrand]_vars

----------------------------------------------------------------------------
(* SpecCap: the sampling loop of infer_strandedness_from_fastq, line by     *)
(* line, from the start of a file and from just below its 100,000th read    *)

MaxTail == 3           \* the records the file holds after the reads already tallied

\* the reads already tallied when the run is taken up: none, or all but the
\* last two or the last one of the reads that are sampled
PrefixReads == {0, SampleCap - 2, SampleCap - 1}

\* the loop's locals after n reads GCAT: reads 2, 4, ... went to the forward
\* totals, reads 1, 3, ... to the reverse totals
PrefixTally(n) ==
    [forward_gc |-> 2 * (n \div 2), forward_at |-> 2 * (n \div 2),
     reverse_gc |-> 2 * (n - n \div 2), reverse_at |-> 2 * (n - n \div 2),
     total_reads |-> n, stopped |-> n >= SampleCap]

CapSequences == { <<"G">>, <<"a", "t">>, <<"G", "C", "A">> }

RECURSIVE CapOfReads(_)
CapOfReads(n) ==
    IF n = 0 THEN {<<>>}
    ELSE {f \o <<HeaderLine, q, SeparatorLine, Repeat("I", Len(q))>> :
            f \in CapOfReads(n - 1), q \in CapSequences}

\* fastq_file holds the lines after the reads already tallied
InitCap ==
    /\ fastq_file \in UNION {CapOfReads(n) : n \in 0..MaxTail}
    /\ \E n \in PrefixReads :
        /\ call = [fn |-> "infer_strandedness_from_fastq", kmer_size |-> 0,
                   raised |-> FALSE, prefix |-> n]
        /\ locals = [pc |-> "loop", line_num |-> 4 * n, tally |-> PrefixTally(n)]
    /\ ret = NoRecord
    /\ InitPoolIdle

\* one iteration of `for line in f`
StrandReadLine ==
    /\ locals.pc = "loop"
    /\ ~locals.tally.stopped
    /\ locals.line_num - 4 * call.prefix < Len(fastq_file)
    /\ LET line_num == locals.line_num + 1
           line == fastq_file[line_num - 4 * call.prefix]
       IN locals' = [locals EXCEPT !.line_num = line_num,
                                   !.tally = StrandLine(@, line_num, line)]
    /\ UNCHANGED <<fastq_file, call, ret, pool_vars>>

\* the loop is left by `break` or at the end of the file
StrandLeaveLoop ==
    /\ locals.pc = "loop"
    /\ locals.tally.stopped \/ locals.line_num - 4 * call.prefix = Len(fastq_file)
    /\ locals' = [locals EXCEPT !.pc = "done"]
    /\ ret' = StrandMetrics(FileName, locals.tally)
    /\ UNCHANGED <<fastq_file, call, pool_vars>>

NextCap ==
    \/ StrandReadLine
    \/ StrandLeaveLoop

SpecCap == InitCap /\ [][NextCap]_vars

----------------------------------------------------------------------------
(* SpecSynthetic: calculate_sequence_complexity on synthetic files of whole *)
(* records, the reads ACGT, TTTT and GGCC repeated in any order, every      *)
(* quality character 'I'                                                    *)

MaxSynthetic == 4      \* a synthetic file has at most MaxSynthetic reads

SyntheticSequences ==
    { <<"A", "C", "G", "T">>, <<"T", "T", "T", "T">>, <<"G", "G", "C", "C">> }

RECURSIVE SyntheticOfReads(_)
SyntheticOfReads(n) ==
    IF n = 0 THEN {<<>>}
    ELSE {f \o <<HeaderLine, q, SeparatorLine, Repeat("I", Len(q))>> :
            f \in SyntheticOfReads(n - 1), q \in SyntheticSequences}

SyntheticFiles == UNION {SyntheticOfReads(n) : n \in 0..MaxSynthetic}

InitSynthetic ==
    /\ fastq_file \in SyntheticFiles
    /\ call = NoCall
    /\ ret = NoRecord
    /\ locals = NoLocals
    /\ InitPoolIdle

NextSynthetic == CalcComplexity

SpecSynthetic == InitSynthetic /\ [][NextSynthetic]_vars

----------------------------------------------------------------------------
(* SpecTwice: an analysis function called again on the same file by the     *)
(* same driver object; the call record keeps what the call before returned  *)

MaxTwice == 2          \* a file of SpecTwice has at most MaxTwice whole records

TwiceFiles == UNION {FilesOfLen(4 * n) : n \in 0..MaxTwice}

InitTwice ==
    /\ fastq_file \in TwiceFiles
    /\ call = NoCall
    /\ ret = NoRecord
    /\ locals = NoLocals
    /\ InitPoolIdle

\* the record of a call that follows a call of the same function
CallAgain(raised) ==
    [fn |-> call.fn, kmer_size |-> call.kmer_size, raised |-> raised,
     previous |-> ret, previous_raised |-> call.raised]

CalcComplexityAgain ==
    \E fail \in FailPoints(fastq_file) :
        /\ call.fn = "calculate_sequence_complexity"
        /\ call' = CallAgain(Failed(fastq_file, fail))
        /\ ret' = calculate_sequence_complexity(FileName, fastq_file, fail)
        /\ locals' = ComplexityTally(Delivered(fastq_file, fail))
        /\ UNCHANGED <<fastq_file, pool_vars>>

EstimateLibraryAgain ==
    \E fail \in FailPoints(fastq_file) :
        /\ call.fn = "estimate_library_size"
        /\ call' = CallAgain(Failed(fastq_file, fail))
        /\ ret' = estimate_library_size(FileName, fastq_file, fail)
        /\ locals' = [sequence_counts |-> LibraryTally(Delivered(fastq_file, fail))]
        /\ UNCHANGED <<fastq_file, pool_vars>>

KmerDetectAgain ==
    \E fail \in FailPoints(fastq_file) :
        /\ call.fn = "kmer_contamination_detection"
        /\ call' = CallAgain(Failed(fastq_file, fail))
        /\ ret' = kmer_contamination_detection(FileName, fastq_file, call.kmer_size, fail)
        /\ locals' = KmerTally(Delivered(fastq_file, fail), call.kmer_size)
        /\ UNCHANGED <<fastq_file, pool_vars>>

InferStrandAgain ==
    \E fail \in FailPoints(fastq_file) :
        /\ call.fn = "infer_strandedness_from_fastq"
        /\ call' = CallAgain(Failed(fastq_file, fail))
        /\ ret' = infer_strandedness_from_fastq(FileName, fastq_file, fail)
        /\ locals' = StrandTally(Delivered(fastq_file, fail))
        /\ UNCHANGED <<fastq_file, pool_vars>>

NextTwice ==
    \/ CalcComplexity
    \/ EstimateLibrary
    \/ KmerDetect
    \/ InferStrand
    \/ CalcComplexityAgain
    \/ EstimateLibraryAgain
    \/ KmerDetectAgain
    \/ InferStrandAgain

SpecTwice == InitTwice /\ [][NextTwice]_vars

----------------------------------------------------------------------------
(* SpecFlags: generate_quality_flags on report frames whose rows come from  *)
(* tallies of up to MaxTally reads                                          *)

MaxTally == 10         \* a row of SpecFlags comes from at most MaxTally reads

\* gc_count / total_bases in tenths
GcTenths == {3, 4, 5, 6, 7}

\* the tallies a file can leave: n reads of k distinct sequences, s of them
\* seen once (the others at least twice each)
TallyShapes ==
    {<<n, k, s>> \in (1..MaxTally) \X (1..MaxTally) \X (0..MaxTally) :
        /\ k <= n
        /\ s <= k
        /\ s = k => n = k
        /\ s < k => n - s >= 2 * (k - s)}

\* the columns of the row generate_complexity_report builds from such a tally
\* that generate_quality_flags reads
FlagRow(name, n, k, s, g) ==
    [file |-> name, total_reads |-> n, unique_sequences |-> k,
     duplication_rate |-> DuplicationRate(DuplicateReads(n, k), n),
     complexity_score |-> ComplexityScore(k, n),
     gc_content |-> GcContent(g, 10),
     coverage_estimate |-> CoverageEstimate(s, n)]

\* the row of a file that failed or held no read
DegradedRow(name) ==
    [file |-> name, total_reads |-> 0, unique_sequences |-> 0,
     duplication_rate |-> RatZero, complexity_score |-> RatZero,
     gc_content |-> RatZero, coverage_estimate |-> RatZero]

FlagFrames ==
    LET rows == {FlagRow("a.fastq.gz", t[1], t[2], t[3], g) : t \in TallyShapes, g \in GcTenths}
                \cup {DegradedRow("a.fastq.gz")}
    IN {<<r>> : r \in rows} \cup {<<r, DegradedRow("b.fastq.gz")>> : r \in rows}

InitFlags ==
    /\ driver = "complexity"
    /\ max_workers = 1
    /\ main_pc = "reported"
    /\ report \in FlagFrames
    /\ qc_results = <<>>
    /\ failed_qc = <<>>
    /\ fastq_files = <<>>
    /\ fut = <<>>
    /\ task_pc = <<>>
    /\ task_result = <<>>
    /\ task_fail = <<>>
    /\ results = <<>>
    /\ contaminated_samples = <<>>
    /\ yielded = {}
    /\ completed = 0
    /\ fastq_file = <<>>
    /\ call = NoCall
    /\ ret = NoRecord
    /\ locals = NoLocals

NextFlags == GenerateQualityFlags

SpecFlags == InitFlags /\ [][NextFlags]_vars

----------------------------------------------------------------------------
(* FastQCQualityControl.validate_fastq_format, and SpecValidate applying it *)
(* to files whose header and separator lines may be wrong                   *)

MaxValidate == 2       \* a file of SpecValidate has at most 4 * MaxValidate lines

\* str.startswith for a one-character prefix
startswith(line, c) == line # <<>> /\ line[1] = c

ValidateLocals0 == [line_num |-> 0, read_count |-> 0, valid |-> TRUE, errors |-> <<>>]

\* mutant: the loop is left at the first violation (break)
ValidateLine_stopAtFirst(st, line_num, line) ==
    IF ~st.valid THEN st
    ELSE IF line_num % 4 = 1 THEN
        IF ~startswith(line, "@")
        THEN [st EXCEPT !.line_num = line_num, !.valid = FALSE,
                        !.errors = Append(@, [line |-> line_num, kind |-> "Invalid header"])]
        ELSE [st EXCEPT !.line_num = line_num]
    ELSE IF line_num % 4 = 3 THEN
        IF ~startswith(line, "+")
        THEN [st EXCEPT !.line_num = line_num, !.valid = FALSE,
                        !.errors = Append(@, [line |-> line_num, kind |-> "Invalid separator"])]
        ELSE [st EXCEPT !.line_num = line_num]
    ELSE IF line_num % 4 = 0 THEN
        [st EXCEPT !.line_num = line_num, !.read_count = @ + 1]
    ELSE [st EXCEPT !.line_num = line_num]

\* one iteration of `for line in f`, line_num already incremented
ValidateLine(st, line_num, line) ==
    IF line_num % 4 = 1 THEN
        IF ~startswith(line, "@")
        THEN [st EXCEPT !.line_num = line_num, !.valid = FALSE,
                        !.errors = Append(@, [line |-> line_num, kind |-> "Invalid header"])]
        ELSE [st EXCEPT !.line_num = line_num]
    ELSE IF line_num % 4 = 3 THEN
        IF ~startswith(line, "+")
        THEN [st EXCEPT !.line_num = line_num, !.valid = FALSE,
                        !.errors = Append(@, [line |-> line_num, kind |-> "Invalid separator"])]
        ELSE [st EXCEPT !.line_num = line_num]
    ELSE IF line_num % 4 = 0 THEN
        [st EXCEPT !.line_num = line_num, !.read_count = @ + 1]
    ELSE [st EXCEPT !.line_num = line_num]

RECURSIVE ValidateLoop(_, _)
ValidateLoop(lines, n) ==
    IF n = 0 THEN ValidateLocals0
    ELSE ValidateLine(ValidateLoop(lines, n - 1), n, lines[n])

ValidateTally(lines) == ValidateLoop(lines, Len(lines))

\* the pair (validation['valid'], validation); after an exception the errors
\* recorded so far stay, str(e) is appended and total_reads is left at 0
validate_fastq_format(name, file, fail) ==
    LET st == ValidateTally(Delivered(file, fail))
        validation ==
            IF Failed(file, fail)
            THEN [file |-> name, valid |-> FALSE, total_reads |-> 0,
                  errors |-> Append(st.errors, [line |-> 0, kind |-> "exception"])]
            ELSE [file |-> name, valid |-> st.valid, total_reads |-> st.read_count,
                  errors |-> st.errors]
    IN <<validation.valid, validation>>

\* what line number n of a file given to validate_fastq_format may hold
ValidateLinesAt(n) ==
    CASE n % 4 = 1 -> {<<"@">>, <<"+">>, <<>>}
      [] n % 4 = 2 -> {<<"A">>}
      [] n % 4 = 3 -> {<<"+">>, <<"@">>}
      [] OTHER -> {<<"I">>, <<"@">>}

RECURSIVE ValidateFilesOfLen(_)
ValidateFilesOfLen(n) ==
    IF n = 0 THEN {<<>>}
    ELSE {Append(f, l) : f \in ValidateFilesOfLen(n - 1), l \in ValidateLinesAt(n)}

ValidateFiles == UNION {ValidateFilesOfLen(n) : n \in 0..(4 * MaxValidate)}

InitValidate ==
    /\ fastq_file \in ValidateFiles
    /\ call = NoCall
    /\ ret = NoRecord
    /\ locals = NoLocals
    /\ InitPoolIdle

ValidateFastqFormat ==
    \E fail \in FailPoints(fastq_file) :
        /\ call = NoCall
        /\ call' = [fn |-> "validate_fastq_format", kmer_size |-> 0,
                    raised |-> Failed(fastq_file, fail)]
        /\ ret' = validate_fastq_format(FileName, fastq_file, fail)
        /\ locals' = ValidateTally(Delivered(fastq_file, fail))
        /\ UNCHANGED <<fastq_file, pool_vars>>

NextValidate == ValidateFastqFormat

SpecValidate == InitValidate /\ [][NextValidate]_vars

----------------------------------------------------------------------------
(* utils.retry_with_backoff and GEOQueryEngine.search_geo, which it wraps.  *)
(* SpecRetry runs the wrapper around a function whose calls return or raise *)
(* as they please, and around search_geo under every run of API responses.  *)

MaxAttempts == 3       \* max_attempts ranges over 0 .. MaxAttempts

InitialDelays == {1, 2}
BackoffFactors == {1, 2, 3}

\* last_exception = None
None == [type |-> "None", msg |-> "None", attempt |-> 0]

\* `except exceptions as e` catches e: isinstance(e, exceptions)
IsInstance(e, exceptions) ==
    \/ e.type \in exceptions
    \/ "Exception" \in exceptions
    \/ e.type \in {"HTTPError", "Timeout"} /\ "RequestException" \in exceptions

Returns(value) == [kind |-> "return", value |-> value]
Raises(type, msg, attempt) ==
    [kind |-> "raise", exception |-> [type |-> type, msg |-> msg, attempt |-> attempt]]

\* what the API may answer to one request
Responses == {"timeout", "http_error", "rate_limited", "empty", "malformed", "no_idlist", "ids"}

SupportedCancerTypes == {"breast cancer"}

\* the body of search_geo, for one response of requests.get
search_geo(cancer_type, response, attempt) ==
    IF cancer_type \notin SupportedCancerTypes
        THEN Raises("ValueError", "Unknown cancer type", attempt)
    ELSE IF response = "timeout"
        THEN Raises("Timeout", "requests.get", attempt)
    ELSE IF response = "http_error"
        THEN Raises("HTTPError", "raise_for_status", attempt)
    ELSE IF response = "rate_limited"
        THEN Raises("RequestException", "Rate limited (429)", attempt)
    ELSE IF response = "empty"
        THEN Raises("RequestException", "Empty response from API", attempt)
    ELSE IF response = "malformed"
        THEN Raises("RequestException", "Invalid XML response", attempt)
    ELSE IF response = "no_idlist"
        THEN Returns(<<>>)
    ELSE Returns(<<"200001">>)

\* what one call of the wrapped function may do
FuncOutcomes(attempt) ==
    IF call.fn = "search_geo"
    THEN {[response |-> r, outcome |-> search_geo(call.cancer_type, r, attempt)] :
            r \in Responses}
    ELSE {[response |-> "none", outcome |-> o] :
            o \in {Returns(attempt), Raises("RequestException", "func", attempt),
                   Raises("ValueError", "func", attempt)}}

WrapperCall(fn, cancer_type, max_attempts, initial_delay, backoff_factor, exceptions) ==
    [fn |-> fn, kmer_size |-> 0, raised |-> FALSE, cancer_type |-> cancer_type,
     max_attempts |-> max_attempts, initial_delay |-> initial_delay,
     backoff_factor |-> backoff_factor, exceptions |-> exceptions]

\* @retry_with_backoff(max_attempts=3, initial_delay=2, exceptions=(requests.RequestException,))
\* with the default backoff_factor 2.0
SearchGeoCalls ==
    {WrapperCall("search_geo", c, 3, 2, 2, {"RequestException"}) :
        c \in SupportedCancerTypes \cup {"unknown cancer"}}

FuncCalls ==
    {WrapperCall("func", "none", m, d, b, x) :
        m \in 0..MaxAttempts, d \in InitialDelays, b \in BackoffFactors,
        x \in {{"RequestException"}, {"Exception"}}}

\* the wrapper's locals at its first statement of the loop; sleeps and
\* history note the time.sleep calls and what each call of func did
InitRetry ==
    /\ call \in SearchGeoCalls \cup FuncCalls
    /\ locals = [pc |-> IF call.max_attempts >= 1 THEN "try" ELSE "raise_last",
                 attempt |-> 1, delay |-> call.initial_delay, last_exception |-> None,
                 sleeps |-> <<>>, history |-> <<>>]
    /\ ret = NoRecord
    /\ fastq_file = <<>>
    /\ InitPoolIdle

\* try: return func(*args, **kwargs) / except exceptions as e
RetryAttempt ==
    /\ locals.pc = "try"
    /\ \E o \in FuncOutcomes(locals.attempt) :
        LET history == Append(locals.history, o) IN
        IF o.outcome.kind = "return"
        THEN /\ ret' = [value |-> o.outcome.value]
             /\ locals' = [locals EXCEPT !.pc = "returned", !.history = history]
        ELSE IF IsInstance(o.outcome.exception, call.exceptions)
        THEN /\ ret' = ret
             /\ locals' = [locals EXCEPT
                    !.pc = IF locals.attempt < call.max_attempts THEN "sleep" ELSE "raise_last",
                    !.last_exception = o.outcome.exception,
                    !.history = history]
        ELSE /\ ret' = [exception |-> o.outcome.exception]
             /\ locals' = [locals EXCEPT !.pc = "raised", !.history = history]
    /\ UNCHANGED <<fastq_file, call, pool_vars>>

\* mutant: delay += backoff_factor
NextDelay_additive(delay, backoff_factor) == delay + backoff_factor

\* delay *= backoff_factor
NextDelay(delay, backoff_factor) == delay * backoff_factor

\* time.sleep(delay); delay *= backoff_factor; the next iteration of the loop
RetrySleep ==
    /\ locals.pc = "sleep"
    /\ locals' = [locals EXCEPT !.pc = "try",
                                !.sleeps = Append(@, locals.delay),
                                !.delay = NextDelay(@, call.backoff_factor),
                                !.attempt = @ + 1]
    /\ UNCHANGED <<fastq_file, call, ret, pool_vars>>

\* raise last_exception; `raise None` is a TypeError
RetryRaiseLast ==
    /\ locals.pc = "raise_last"
    /\ ret' = [exception |->
                  IF locals.last_exception = None
                  THEN [type |-> "TypeError", msg |-> "exceptions must derive from BaseException",
                        attempt |-> 0]
                  ELSE locals.last_exception]
    /\ locals' = [locals EXCEPT !.pc = "raised"]
    /\ UNCHANGED <<fastq_file, call, pool_vars>>

NextRetry ==
    \/ RetryAttempt
    \/ RetrySleep
    \/ RetryRaiseLast

SpecRetry == InitRetry /\ [][NextRetry]_vars

----------------------------------------------------------------------------
(* SpecTasks: the process_sample tasks of 09 interleaved line by line, each *)
(* call of calculate_sequence_complexity with its own locals                *)

MaxTasks == 2          \* number of files analysed at the same time

TaskContents ==
    { <<HeaderLine, <<"a", "t">>, SeparatorLine, <<"I">>>>,
      <<HeaderLine, <<"G", "G">>, SeparatorLine, <<"+">>>> }

\* mutant: the tallies kept on the object (self.sequence_counts), one for all tasks
TallySlot_shared(i) == 1

\* sequence_counts, total_bases, gc_count and quality_scores are locals of
\* the call: task i tallies into its own
TallySlot(i) == i

\* locals[i]: the line number and the tallies of task i's call of
\* calculate_sequence_complexity
InitTasks ==
    /\ driver = "complexity"
    /\ fastq_files \in UNION {[1..n -> TaskContents] : n \in 1..MaxTasks}
    /\ max_workers = Len(fastq_files)
    /\ main_pc = "as_completed"
    /\ fut = [i \in FileIds |-> "pending"]
    /\ task_pc = [i \in FileIds |-> "none"]
    /\ task_result = [i \in FileIds |-> EmptyDict]
    /\ task_fail = [i \in FileIds |-> {}]
    /\ locals = [i \in FileIds |-> [line_num |-> 0, tally |-> ComplexityLocals0]]
    /\ results = <<>>
    /\ contaminated_samples = <<>>
    /\ yielded = {}
    /\ completed = 0
    /\ report = <<>>
    /\ qc_results = <<>>
    /\ failed_qc = <<>>
    /\ fastq_file = <<>>
    /\ call = NoCall
    /\ ret = NoRecord

\* process_sample is entered and calls calculate_sequence_complexity, which
\* sets up its tallies
TaskStart(i) ==
    /\ task_pc[i] = "none"
    /\ fut' = [fut EXCEPT ![i] = "running"]
    /\ task_pc' = [task_pc EXCEPT ![i] = "complexity"]
    /\ task_result' = [task_result EXCEPT ![i] =
           [file |-> i, path |-> i, complexity_metrics |-> EmptyDict,
            library_size_estimate |-> EmptyDict]]
    /\ locals' = [locals EXCEPT ![TallySlot(i)].tally = ComplexityLocals0,
                                ![i].line_num = 0]
    /\ UNCHANGED <<fastq_file, call, ret, driver, max_workers, fastq_files, main_pc, task_fail,
                   results, contaminated_samples, yielded, completed, report, qc_vars>>

\* one iteration of `for line in f` in task i
TaskReadLine(i) ==
    /\ task_pc[i] = "complexity"
    /\ locals[i].line_num < Len(fastq_files[i])
    /\ LET line_num == locals[i].line_num + 1
       IN locals' = [locals EXCEPT
              ![TallySlot(i)].tally = ComplexityLine(@, line_num, fastq_files[i][line_num]),
              ![i].line_num = line_num]
    /\ UNCHANGED <<fastq_file, call, ret, pool_vars>>

\* the read raises: the except clause returns the record of defaults
TaskReadFails(i) ==
    /\ task_pc[i] = "complexity"
    /\ task_result' = [task_result EXCEPT ![i].complexity_metrics = ComplexityDefault(i)]
    /\ task_fail' = [task_fail EXCEPT ![i] =
           @ \cup {ReadFailure("calculate_sequence_complexity", 0)}]
    /\ task_pc' = [task_pc EXCEPT ![i] = "library"]
    /\ UNCHANGED <<engine_vars, driver, max_workers, fastq_files, main_pc, fut, results,
                   contaminated_samples, yielded, completed, report>>

\* the end of the file: the metrics are computed from the call's tallies
TaskComplexity(i) ==
    /\ task_pc[i] = "complexity"
    /\ locals[i].line_num = Len(fastq_files[i])
    /\ task_result' = [task_result EXCEPT ![i].complexity_metrics =
           ComplexityMetrics(i, locals[TallySlot(i)].tally)]
    /\ task_pc' = [task_pc EXCEPT ![i] = "library"]
    /\ UNCHANGED <<engine_vars, driver, max_workers, fastq_files, main_pc, fut, task_fail, results,
                   contaminated_samples, yielded, completed, report>>

\* library_size = self.estimate_library_size(fastq_file), whose read of the
\* file raises or not
TaskLibrary(i) ==
    /\ task_pc[i] = "library"
    /\ \E fail \in {0, NoFail(fastq_files[i])} :
        /\ task_result' = [task_result EXCEPT ![i].library_size_estimate =
               estimate_library_size(i, fastq_files[i], fail)]
        /\ task_fail' = NoteFailure(i, "estimate_library_size", fail)
    /\ task_pc' = [task_pc EXCEPT ![i] = "append"]
    /\ UNCHANGED <<engine_vars, driver, max_workers, fastq_files, main_pc, fut, results,
                   contaminated_samples, yielded, completed, report>>

\* self.results.append(result); return result
TaskAppend(i) ==
    /\ task_pc[i] = "append"
    /\ results' = Append(results, task_result[i])
    /\ task_pc' = [task_pc EXCEPT ![i] = "exit"]
    /\ fut' = [fut EXCEPT ![i] = "finished"]
    /\ UNCHANGED <<engine_vars, driver, max_workers, fastq_files, main_pc, task_result, task_fail,
                   contaminated_samples, yielded, completed, report>>

NextTasks ==
    \/ \E i \in FileIds : TaskStart(i)
    \/ \E i \in FileIds : TaskReadLine(i)
    \/ \E i \in FileIds : TaskReadFails(i)
    \/ \E i \in FileIds : TaskComplexity(i)
    \/ \E i \in FileIds : TaskLibrary(i)
    \/ \E i \in FileIds : TaskAppend(i)

SpecTasks == InitTasks /\ [][NextTasks]_vars

----------------------------------------------------------------------------
(* SpecQc: FastQCQualityControl.process_fastq_file on the files of a batch, *)
(* the calls interleaved as the worker threads of run_quality_control run   *)
(* them                                                                      *)

MaxQcFiles == 2        \* number of files of the batch

\* a well-formed record, and one whose header line does not start with '@'
QcContents ==
    { <<<<"@">>, <<"A">>, <<"+">>, <<"I">>>>,
      <<<<"+">>, <<"A">>, <<"+">>, <<"I">>>> }

InitQc ==
    /\ driver = "qc"
    /\ fastq_files \in UNION {[1..n -> QcContents] : n \in 1..MaxQcFiles}
    /\ max_workers = Len(fastq_files)
    /\ main_pc = "as_completed"
    /\ fut = [i \in FileIds |-> "pending"]
    /\ task_pc = [i \in FileIds |-> "none"]
    /\ task_result = [i \in FileIds |-> EmptyDict]
    /\ task_fail = [i \in FileIds |-> {}]
    /\ qc_results = <<>>
    /\ failed_qc = <<>>
    /\ results = <<>>
    /\ contaminated_samples = <<>>
    /\ yielded = {}
    /\ completed = 0
    /\ report = <<>>
    /\ fastq_file = <<>>
    /\ call = NoCall
    /\ ret = NoRecord
    /\ locals = NoLocals

\* mutant: FastQC is run whether or not the file is valid
QcValidate_noReturn(i) ==
    /\ task_pc[i] = "none"
    /\ \E fail \in {0, NoFail(fastq_files[i])} :
        LET v == validate_fastq_format(i, fastq_files[i], fail)
        IN /\ task_result' = [task_result EXCEPT ![i] =
                  [file |-> i, path |-> i, fastqc_success |-> FALSE, format_valid |-> v[1],
                   metrics |-> EmptyDict, validation |-> v[2]]]
           /\ task_pc' = [task_pc EXCEPT ![i] = "mkdir"]
    /\ fut' = [fut EXCEPT ![i] = "running"]
    /\ UNCHANGED <<engine_vars, driver, max_workers, fastq_files, main_pc, task_fail, results,
                   contaminated_samples, yielded, completed, report>>

\* result = {...}; valid, validation = self.validate_fastq_format(fastq_file);
\* `if not valid` chooses the branch
QcValidate(i) ==
    /\ task_pc[i] = "none"
    /\ \E fail \in {0, NoFail(fastq_files[i])} :
        LET v == validate_fastq_format(i, fastq_files[i], fail)
        IN /\ task_result' = [task_result EXCEPT ![i] =
                  [file |-> i, path |-> i, fastqc_success |-> FALSE, format_valid |-> v[1],
                   metrics |-> EmptyDict, validation |-> v[2]]]
           /\ task_pc' = [task_pc EXCEPT ![i] = IF v[1] THEN "mkdir" ELSE "skip"]
    /\ fut' = [fut EXCEPT ![i] = "running"]
    /\ UNCHANGED <<engine_vars, driver, max_workers, fastq_files, main_pc, task_fail, results,
                   contaminated_samples, yielded, completed, report>>

\* self.failed_qc.append(result); return result
QcSkip(i) ==
    /\ task_pc[i] = "skip"
    /\ failed_qc' = Append(failed_qc, task_result[i])
    /\ task_pc' = [task_pc EXCEPT ![i] = "exit"]
    /\ fut' = [fut EXCEPT ![i] = "finished"]
    /\ UNCHANGED <<fastq_file, call, ret, locals, qc_results, driver, max_workers, fastq_files,
                   main_pc, task_result, task_fail, results, contaminated_samples, yielded,
                   completed, report>>

\* qc_output_dir.mkdir(parents=True, exist_ok=True) stands outside every try
\* block; when it raises (OSError) process_fastq_file is left and the
\* exception is stored in the future
QcMkdir(i) ==
    /\ task_pc[i] = "mkdir"
    /\ \E ok \in BOOLEAN :
        IF ok
        THEN /\ task_pc' = [task_pc EXCEPT ![i] = "run_fastqc"]
             /\ fut' = fut
        ELSE /\ task_pc' = [task_pc EXCEPT ![i] = "exit"]
             /\ fut' = [fut EXCEPT ![i] = "raised"]
    /\ UNCHANGED <<engine_vars, driver, max_workers, fastq_files, main_pc, task_result, task_fail,
                   results, contaminated_samples, yielded, completed, report>>

\* what extract_fastqc_metrics may return for a report
QcMetrics == [status |-> "pass"]

\* success, message = self.run_fastqc(...), which catches whatever the
\* subprocess raises; on success the metrics are extracted if the HTML
\* report exists
QcRunFastqc(i) ==
    /\ task_pc[i] = "run_fastqc"
    /\ \E success \in BOOLEAN, exists \in BOOLEAN :
        /\ task_result' = [task_result EXCEPT ![i] =
               [k \in DOMAIN @ \cup {"fastqc_message"} |->
                   CASE k = "fastqc_success" -> success
                     [] k = "fastqc_message" -> IF success THEN "Success" ELSE "Failed"
                     [] k = "metrics" -> IF success /\ exists THEN QcMetrics ELSE EmptyDict
                     [] OTHER -> @[k]]]
        /\ task_pc' = [task_pc EXCEPT ![i] = IF success THEN "append_qc" ELSE "append_failed"]
    /\ UNCHANGED <<engine_vars, driver, max_workers, fastq_files, main_pc, fut, task_fail, results,
                   contaminated_samples, yielded, completed, report>>

\* else: self.failed_qc.append(result)
QcAppendFailed(i) ==
    /\ task_pc[i] = "append_failed"
    /\ failed_qc' = Append(failed_qc, task_result[i])
    /\ task_pc' = [task_pc EXCEPT ![i] = "append_qc"]
    /\ UNCHANGED <<fastq_file, call, ret, locals, qc_results, driver, max_workers, fastq_files,
                   main_pc, fut, task_result, task_fail, results, contaminated_samples, yielded,
                   completed, report>>

\* self.qc_results.append(result); return result
QcAppendResult(i) ==
    /\ task_pc[i] = "append_qc"
    /\ qc_results' = Append(qc_results, task_result[i])
    /\ task_pc' = [task_pc EXCEPT ![i] = "exit"]
    /\ fut' = [fut EXCEPT ![i] = "finished"]
    /\ UNCHANGED <<fastq_file, call, ret, locals, failed_qc, driver, max_workers, fastq_files,
                   main_pc, task_result, task_fail, results, contaminated_samples, yielded,
                   completed, report>>

NextQc ==
    \/ \E i \in FileIds : QcValidate(i)
    \/ \E i \in FileIds : QcSkip(i)
    \/ \E i \in FileIds : QcMkdir(i)
    \/ \E i \in FileIds : QcRunFastqc(i)
    \/ \E i \in FileIds : QcAppendFailed(i)
    \/ \E i \in FileIds : QcAppendResult(i)

SpecQc == InitQc /\ [][NextQc]_vars

----------------------------------------------------------------------------
(* What the file holds, counted from its lines without the tallies *)

\* the reads of the file, upper-cased as the complexity tallies take them
ReadAt(i) == upper(strip(fastq_file[i]))
DistinctReads == {ReadAt(i) : i \in SequenceLineNums(Len(fastq_file))}
Occurrences(q) == Cardinality({i \in SequenceLineNums(Len(fastq_file)) : ReadAt(i) = q})
Singletons == Cardinality({q \in DistinctReads : Occurrences(q) = 1})
Doubletons == Cardinality({q \in DistinctReads : Occurrences(q) = 2})

\* the k-mer windows of the first n lines: <<line number, offset>>
Windows(n, k) ==
    UNION {{<<i, j>> : j \in 1..(Len(strip(fastq_file[i])) - k + 1)} :
             i \in SequenceLineNums(n)}
WindowText(w, k) == SubSeq(strip(fastq_file[w[1]]), w[2], w[2] + k - 1)

Returned(fn) == call.fn = fn
Percent(p) == RatLeq(RatZero, p) /\ RatLeq(p, <<100, 1>>)

----------------------------------------------------------------------------
(* Claims on calculate_sequence_complexity and estimate_library_size *)

\* C3: in every record returned by calculate_sequence_complexity,
\* duplicate_reads = total_reads - unique_sequences and duplicate_reads >= 0.
C3_DuplicateReads ==
    Returned("calculate_sequence_complexity") =>
        /\ ret.duplicate_reads = ret.total_reads - ret.unique_sequences
        /\ ret.duplicate_reads >= 0
        /\ ~call.raised =>
              /\ ret.total_reads = Cardinality(SequenceLineNums(Len(fastq_file)))
              /\ ret.unique_sequences = Cardinality(DistinctReads)

C3_Witness ==
    /\ Returned("calculate_sequence_complexity")
    /\ ret.duplicate_reads = 1
    /\ ret.unique_sequences = 2

C5_Percentages ==
    /\ Returned("calculate_sequence_complexity") =>
          /\ Percent(ret.duplication_rate)
          /\ Percent(ret.complexity_score)
          /\ Percent(ret.gc_content)
    /\ Returned("estimate_library_size") => Percent(ret.coverage_estimate)

C5_Witness ==
    /\ Returned("calculate_sequence_complexity")
    /\ ret.gc_content = <<100, 1>>
    /\ ret.complexity_score = <<50, 1>>

\* C6: for every input with at least one read, chao1_estimate of
\* estimate_library_size is at least the number of distinct sequences
\* observed (observed_species, the unique_sequences of the same file).
C6_Chao1AtLeastObserved ==
    (/\ Returned("estimate_library_size")
     /\ ~call.raised
     /\ SequenceLineNums(Len(fastq_file)) # {}) =>
        /\ ret.observed_species = Cardinality(DistinctReads)
        /\ ret.observed_species =
              calculate_sequence_complexity(FileName, fastq_file,
                                            NoFail(fastq_file)).unique_sequences
        /\ RatLeq(RatOfInt(ret.observed_species), ret.chao1_estimate)

C6_Witness ==
    /\ Returned("estimate_library_size")
    /\ ~call.raised
    /\ ret.observed_species = 1
    /\ ret.singleton_species = 1
    /\ ret.chao1_estimate = <<1, 1>>

\* C7: chao1_estimate is observed + singletons^2 / (2 * doubletons) when
\* doubletons > 0 and observed + singletons * (singletons - 1) / 2 when
\* doubletons = 0, singletons and doubletons being the numbers of distinct
\* sequences that occur exactly once and exactly twice in the file.
C7_Chao1Formula ==
    (Returned("estimate_library_size") /\ ~call.raised) =>
        LET observed == Cardinality(DistinctReads) IN
        /\ ret.singleton_species = Singletons
        /\ ret.doubleton_species = Doubletons
        /\ Doubletons > 0 =>
              ret.chao1_estimate =
                  Rat(observed * 2 * Doubletons + Singletons * Singletons, 2 * Doubletons)
        /\ Doubletons = 0 =>
              ret.chao1_estimate = Rat(2 * observed + Singletons * (Singletons - 1), 2)

C7_Witness ==
    /\ Returned("estimate_library_size")
    /\ ~call.raised
    /\ ret.doubleton_species = 1
    /\ ret.singleton_species = 1
    /\ ret.chao1_estimate = <<5, 2>>

\* C8: the entropy of calculate_sequence_complexity is 0 exactly when
\* unique_sequences <= 1 (no reads, or all reads identical after
\* upper-casing) and strictly positive when two or more distinct sequences
\* are observed.
C8_EntropySign ==
    Returned("calculate_sequence_complexity") =>
        /\ EntropyIsZero(ret.entropy) <=> ret.unique_sequences <= 1
        /\ ret.unique_sequences >= 2 => EntropyIsPositive(ret.entropy)
        /\ ~call.raised => ret.unique_sequences = Cardinality(DistinctReads)

C8_Witness ==
    /\ Returned("calculate_sequence_complexity")
    /\ ret.unique_sequences = 2
    /\ ret.total_reads = 3
    /\ EntropyIsPositive(ret.entropy)

----------------------------------------------------------------------------
(* Claims on kmer_contamination_detection *)

\* C9: for every input and every k-mer size, kmer_complexity lies in
\* [0, 1]; it is 1 when k-mers were extracted and all are distinct, and 0
\* when none was extracted (total_kmers = 0).
C9_KmerComplexityRange ==
    Returned("kmer_contamination_detection") =>
        LET k == call.kmer_size
            all == Windows(Len(fastq_file), k)
        IN /\ RatLeq(RatZero, ret.kmer_complexity)
           /\ RatLeq(ret.kmer_complexity, <<1, 1>>)
           /\ (/\ ~call.raised
               /\ all # {}
               /\ \A v, w \in all : v # w => WindowText(v, k) # WindowText(w, k))
                  => ret.kmer_complexity = <<1, 1>>
           /\ locals.total_kmers = 0 => ret.kmer_complexity = RatZero

C9_Witness ==
    /\ Returned("kmer_contamination_detection")
    /\ ~call.raised
    /\ locals.total_kmers = 3
    /\ ret.kmer_complexity = <<1, 1>>

\* the windows of length k that the sequence lines numbered in nums hold
RECURSIVE SumWindows(_, _)
SumWindows(nums, k) ==
    IF nums = {} THEN 0
    ELSE LET i == CHOOSE x \in nums : TRUE
             L == Len(strip(fastq_file[i]))
         IN (IF L - k + 1 > 0 THEN L - k + 1 ELSE 0) + SumWindows(nums \ {i}, k)

\* C10: each sequence of length L adds max(0, L - k + 1) k-mers to
\* total_kmers, one per window of length k; a sequence shorter than k adds
\* none, and a file whose sequences are all shorter than k yields
\* unique_kmers = 0 and kmer_complexity = 0.
C10_KmersPerSequence ==
    Returned("kmer_contamination_detection") =>
        LET k == call.kmer_size IN
        /\ ~call.raised =>
              /\ locals.total_kmers = SumWindows(SequenceLineNums(Len(fastq_file)), k)
              /\ DOMAIN locals.kmer_counts =
                    {WindowText(w, k) : w \in Windows(Len(fastq_file), k)}
              /\ (\A i \in SequenceLineNums(Len(fastq_file)) :
                      Len(strip(fastq_file[i])) < k)
                 => (ret.unique_kmers = 0 /\ ret.kmer_complexity = RatZero)
        /\ \A key \in DOMAIN locals.kmer_counts : Len(key) = k

C10_Witness ==
    /\ Returned("kmer_contamination_detection")
    /\ ~call.raised
    /\ call.kmer_size = 3
    /\ \E i \in SequenceLineNums(Len(fastq_file)) : Len(strip(fastq_file[i])) = 2
    /\ ret.unique_kmers = 0
    /\ ret.kmer_complexity = RatZero

\* C11 as stated: in every record returned by kmer_contamination_detection,
\* the records returned after a read failure included, potential_contamination
\* is true if and only if kmer_complexity < 0.7.
C11_FlagIffBelowThreshold ==
    Returned("kmer_contamination_detection") =>
        (ret.potential_contamination <=> RatLt(ret.kmer_complexity, <<7, 10>>))

\* C11 as amended: in a record returned after the file was read to its end,
\* potential_contamination is true if and only if kmer_complexity < 0.7 (a
\* file without k-mers has kmer_complexity 0 and is flagged); the record
\* returned after a read failure has kmer_complexity 0 and
\* potential_contamination false.
C11_FlagThresholdOrDefault ==
    Returned("kmer_contamination_detection") =>
        IF call.raised
        THEN ret.kmer_complexity = RatZero /\ ~ret.potential_contamination
        ELSE /\ ret.potential_contamination <=> RatLt(ret.kmer_complexity, <<7, 10>>)
             /\ locals.total_kmers > 0 =>
                   ret.kmer_complexity =
                       Rat(Cardinality({WindowText(w, call.kmer_size) :
                                          w \in Windows(Len(fastq_file), call.kmer_size)}),
                           locals.total_kmers)

C11_Witness ==
    /\ Returned("kmer_contamination_detection")
    /\ ~call.raised
    /\ ret.kmer_complexity = <<2, 3>>
    /\ ret.potential_contamination

\* the file with every sequence line upper-cased
UpperCased(file) ==
    [n \in 1..Len(file) |-> IF n % 4 = 2 THEN upper(file[n]) ELSE file[n]]

\* C12: the k-mer tally upper-cases each sequence before extracting k-mers,
\* so two files that differ only in the letter case of their sequences yield
\* the same unique_kmers, kmer_complexity and potential_contamination.
C12_KmersCaseInsensitive ==
    (Returned("kmer_contamination_detection") /\ ~call.raised) =>
        LET other == kmer_contamination_detection(FileName, UpperCased(fastq_file),
                                                  call.kmer_size,
                                                  NoFail(UpperCased(fastq_file)))
        IN /\ ret.unique_kmers = other.unique_kmers
           /\ ret.kmer_complexity = other.kmer_complexity
           /\ ret.potential_contamination = other.potential_contamination

----------------------------------------------------------------------------
(* Claims on infer_strandedness_from_fastq *)

C14_NoGcUnstranded ==
    (/\ Returned("infer_strandedness_from_fastq")
     /\ ~call.raised
     /\ locals.forward_gc + locals.reverse_gc = 0) =>
        /\ ret.gc_skew = RatZero
        /\ ret.strandedness = "unstranded"
        /\ ret.confidence = "high"

\* C28: in every record of infer_strandedness_from_fastq, strandedness is
\* one of stranded, unstranded, unknown and confidence one of high, medium,
\* low; confidence is 'low' exactly when strandedness is 'unknown'; and
\* whenever strandedness is 'unknown', gc_skew and at_skew are both 0.
C28_UnknownHasZeroSkews ==
    Returned("infer_strandedness_from_fastq") =>
        /\ ret.strandedness \in {"stranded", "unstranded", "unknown"}
        /\ ret.confidence \in {"high", "medium", "low"}
        /\ ret.confidence = "low" <=> ret.strandedness = "unknown"
        /\ ret.strandedness = "unknown" =>
              ret.gc_skew = RatZero /\ ret.at_skew = RatZero

----------------------------------------------------------------------------
(* Claims on the quality assessment and on files without reads *)

\* the Phred score a quality character stands for
Phred(q) == CASE q = "I" -> 40 [] q = "+" -> 10

\* the quality characters of the file: <<line number, offset>>
QualityChars ==
    UNION {{<<n, j>> : j \in 1..Len(strip(fastq_file[n]))} :
             n \in {i \in 1..Len(fastq_file) : i % 4 = 0}}

RECURSIVE PhredSum(_)
PhredSum(chars) ==
    IF chars = {} THEN 0
    ELSE LET c == CHOOSE x \in chars : TRUE
         IN Phred(strip(fastq_file[c[1]])[c[2]]) + PhredSum(chars \ {c})

\* C16: calculate_sequence_complexity decodes every quality character as its
\* code point minus 33 and sets quality_assessment from the arithmetic mean
\* of all decoded scores of all reads: 'high' if mean >= 30, 'medium' if
\* 20 <= mean < 30, 'low' if mean < 20, 'unknown' if no score was observed.
C16_QualityAssessment ==
    (Returned("calculate_sequence_complexity") /\ ~call.raised) =>
        LET n == Cardinality(QualityChars)
            total == PhredSum(QualityChars)
        IN /\ Len(locals.quality_scores) = n
           /\ SumSeq(locals.quality_scores) = total
           /\ ret.quality_assessment =
                 IF n = 0 THEN "unknown"
                 ELSE IF total >= 30 * n THEN "high"
                 ELSE IF total >= 20 * n THEN "medium"
                 ELSE "low"

C16_Witness ==
    /\ Returned("calculate_sequence_complexity")
    /\ ~call.raised
    /\ locals.quality_scores = <<40, 10, 40>>
    /\ ret.quality_assessment = "high"

\* C17: for a readable FASTQ file with zero reads, calculate_sequence_complexity
\* and estimate_library_size return without raising, with duplication_rate,
\* complexity_score, entropy, gc_content, chao1_estimate and coverage_estimate
\* all 0 and quality_assessment 'unknown'.
C17_EmptyFileZeroMetrics ==
    (~call.raised /\ SequenceLineNums(Len(fastq_file)) = {}) =>
        /\ Returned("calculate_sequence_complexity") =>
              /\ ret.duplication_rate = RatZero
              /\ ret.complexity_score = RatZero
              /\ EntropyIsZero(ret.entropy)
              /\ ret.gc_content = RatZero
              /\ ret.quality_assessment = "unknown"
        /\ Returned("estimate_library_size") =>
              /\ ret.chao1_estimate = RatZero
              /\ ret.coverage_estimate = RatZero

C17_Witness ==
    /\ Returned("estimate_library_size")
    /\ ~call.raised
    /\ fastq_file = <<>>
    /\ ret.observed_species = 0
    /\ ret.coverage_estimate = RatZero

----------------------------------------------------------------------------
(* Claims on the tally of repeated sequences *)

\* the file of the reads ACGT, ACGT, TTTT, GGCC
ExampleReads ==
    << <<"A", "C", "G", "T">>, <<"A", "C", "G", "T">>, <<"T", "T", "T", "T">>,
       <<"G", "G", "C", "C">> >>
IsExampleFile ==
    /\ Len(fastq_file) = 4 * Len(ExampleReads)
    /\ \A j \in 1..Len(ExampleReads) : fastq_file[4 * j - 2] = ExampleReads[j]

\* C18: for a FASTQ file of N reads made of K distinct sequences, each
\* repeated N/K times in any order, calculate_sequence_complexity returns
\* total_reads = N, unique_sequences = K, duplicate_reads = N - K and
\* duplication_rate = (N - K) / N * 100; the reads ACGT, ACGT, TTTT, GGCC give
\* total_reads 4, unique_sequences 3, duplicate_reads 1, duplication_rate 25,
\* complexity_score 75.
C18_RepeatedSequences ==
    (Returned("calculate_sequence_complexity") /\ ~call.raised) =>
        LET N == Cardinality(SequenceLineNums(Len(fastq_file)))
            K == Cardinality(DistinctReads)
        IN /\ (N > 0 /\ \A q \in DistinctReads : Occurrences(q) * K = N) =>
                 /\ ret.total_reads = N
                 /\ ret.unique_sequences = K
                 /\ ret.duplicate_reads = N - K
                 /\ ret.duplication_rate = Rat((N - K) * 100, N)
           /\ IsExampleFile =>
                 /\ ret.total_reads = 4
                 /\ ret.unique_sequences = 3
                 /\ ret.duplicate_reads = 1
                 /\ ret.duplication_rate = <<25, 1>>
                 /\ ret.complexity_score = <<75, 1>>

C18_Witness ==
    /\ Returned("calculate_sequence_complexity")
    /\ ~call.raised
    /\ Cardinality(DistinctReads) = 2
    /\ \A q \in DistinctReads : Occurrences(q) = 2
    /\ ret.total_reads = 4
    /\ ret.duplication_rate = <<50, 1>>

----------------------------------------------------------------------------
(* Claims on repeated calls *)

CalledAgain == "previous" \in DOMAIN call

----------------------------------------------------------------------------
(* Claims on validate_fastq_format *)

\* the lines among the first n that break the header or separator rule
BadLines(n) ==
    {i \in 1..n :
        \/ i % 4 = 1 /\ (Len(fastq_file[i]) = 0 \/ Head(fastq_file[i]) # "@")
        \/ i % 4 = 3 /\ (Len(fastq_file[i]) = 0 \/ Head(fastq_file[i]) # "+")}

\* C20: validate_fastq_format never raises; it returns valid = false exactly
\* when some line at position 1 mod 4 does not start with '@', or some line
\* at position 3 mod 4 does not start with '+', or the file cannot be opened
\* or decompressed; every such violation adds one entry to errors, and
\* checking goes on through the rest of the file after a violation.
C20_ValidateFastqFormat ==
    Returned("validate_fastq_format") =>
        LET valid == ret[1]
            validation == ret[2]
            bad == BadLines(locals.line_num)
        IN /\ valid = validation.valid
           /\ ~valid <=> (bad # {} \/ call.raised)
           /\ Len(validation.errors) = Cardinality(bad) + (IF call.raised THEN 1 ELSE 0)
           /\ \A i \in bad : \E e \in 1..Len(validation.errors) : validation.errors[e].line = i
           /\ ~call.raised =>
                 /\ locals.line_num = Len(fastq_file)
                 /\ validation.total_reads =
                        Cardinality({i \in 1..Len(fastq_file) : i % 4 = 0})

C20_Witness ==
    /\ Returned("validate_fastq_format")
    /\ ~call.raised
    /\ ~ret[1]
    /\ ret[2].total_reads = 2
    /\ Len(ret[2].errors) = 2
    /\ ret[2].errors[1].line = 1
    /\ ret[2].errors[2].line = 7

----------------------------------------------------------------------------
(* Claims on the sampling loop of infer_strandedness_from_fastq *)

\* the bases c1 and c2 of the k-th read held by fastq_file
ReadBases(k, c1, c2) ==
    LET q == fastq_file[4 * (k - 1) + 2]
    IN Cardinality({i \in 1..Len(q) : q[i] \in {c1, c2}})

\* the sum of the c1 and c2 bases of those of the first m reads of fastq_file
\* whose number in the whole file has the given parity and is at most 100000
RECURSIVE SampledBases(_, _, _, _)
SampledBases(m, parity, c1, c2) ==
    IF m = 0 THEN 0
    ELSE SampledBases(m - 1, parity, c1, c2)
         + (IF (call.prefix + m) % 2 = parity /\ call.prefix + m <= 100000
            THEN ReadBases(m, c1, c2) + ReadBases(m, UpperChar(c1), UpperChar(c2))
            ELSE 0)

----------------------------------------------------------------------------
(* Claims on retry_with_backoff and search_geo *)

\* the i-th call of the wrapped function raised an exception the wrapper retries on
FailedAttempt(i) ==
    /\ locals.history[i].outcome.kind = "raise"
    /\ LET t == locals.history[i].outcome.exception.type
       IN \/ "Exception" \in call.exceptions
          \/ t \in {"RequestException", "HTTPError", "Timeout"}

\* C21: a function wrapped by retry_with_backoff is called at most
\* max_attempts times; the first successful call's value is returned and no
\* further call is made; an exception not in `exceptions` propagates at once
\* without retry; after the i-th failed attempt (i < max_attempts) the wrapper
\* sleeps initial_delay * backoff_factor^(i-1) before the next call; after
\* max_attempts failures it raises the last exception without sleeping again.
C21_RetryWithBackoff ==
    call.fn \in {"func", "search_geo"} =>
        LET n == Len(locals.history)
            last == locals.history[n].outcome
        IN /\ n <= call.max_attempts
           /\ \A i \in 1..(n - 1) : FailedAttempt(i)
           /\ \A j \in 1..Len(locals.sleeps) :
                 locals.sleeps[j] = call.initial_delay * Pow(call.backoff_factor, j - 1)
           /\ locals.pc = "try" => Len(locals.sleeps) = n /\ locals.attempt = n + 1
           /\ locals.pc = "sleep" =>
                 FailedAttempt(n) /\ n < call.max_attempts /\ Len(locals.sleeps) = n - 1
           /\ locals.pc = "returned" =>
                 /\ last.kind = "return"
                 /\ ret = [value |-> last.value]
                 /\ Len(locals.sleeps) = n - 1
           /\ (locals.pc = "raised" /\ call.max_attempts >= 1) =>
                 /\ last.kind = "raise"
                 /\ ret = [exception |-> last.exception]
                 /\ Len(locals.sleeps) = n - 1
                 /\ FailedAttempt(n) => n = call.max_attempts

C21_Witness ==
    /\ call.fn = "func"
    /\ call.max_attempts = 3
    /\ call.initial_delay = 2
    /\ call.backoff_factor = 3
    /\ locals.pc = "raised"
    /\ locals.sleeps = <<2, 6>>
    /\ ret.exception.type = "RequestException"
    /\ ret.exception.attempt = 3

\* every response the call got had an empty body or one that cannot be parsed
OnlyUnusableBodies ==
    /\ locals.history # <<>>
    /\ \A i \in 1..Len(locals.history) :
          locals.history[i].response \in {"empty", "malformed"}

\* C22: for a supported cancer type, search_geo returns an empty list rather
\* than raising when the API response body is empty or cannot be parsed.
C22_EmptyListOnUnusableBody ==
    (/\ call.fn = "search_geo"
     /\ call.cancer_type \in SupportedCancerTypes
     /\ locals.pc \in {"returned", "raised"}
     /\ OnlyUnusableBodies) =>
        locals.pc = "returned" /\ ret = [value |-> <<>>]

----------------------------------------------------------------------------
(* Claims on the order of the tasks and the report *)

\* C24: report generation starts only after every submitted per-file task
\* has finished: no worker is still running, or appending to self.results,
\* while a report is being built.
C24_ReportAfterAllTasks ==
    main_pc \in {"returned", "reported", "flagged"} =>
        /\ \A i \in FileIds : fut[i] \in {"finished", "raised"} /\ task_pc[i] = "exit"
        /\ Len(results) = Cardinality({i \in FileIds : fut[i] = "finished"})
        /\ main_pc \in {"reported", "flagged"} => Len(report) = Len(results)

C24_Witness ==
    /\ main_pc = "reported"
    /\ max_workers = 2
    /\ Len(fastq_files) = 2
    /\ fut = <<"finished", "raised">>
    /\ Len(report) = 1

\* the record process_sample builds for file i when it is analysed alone,
\* given which of its two reads of the file failed
RecordAlone(i) ==
    LET failed(fn) == \E f \in task_fail[i] : f.fn = fn
        file == fastq_files[i]
    IN [file |-> i, path |-> i,
        complexity_metrics |->
            IF failed("calculate_sequence_complexity") THEN ComplexityDefault(i)
            ELSE calculate_sequence_complexity(i, file, NoFail(file)),
        library_size_estimate |->
            IF failed("estimate_library_size") THEN LibraryDefault(i)
            ELSE estimate_library_size(i, file, NoFail(file))]

----------------------------------------------------------------------------
(* Claims on process_fastq_file *)

InFailedQc(i) == \E n \in 1..Len(failed_qc) : failed_qc[n].file = i
InQcResults(i) == \E n \in 1..Len(qc_results) : qc_results[n].file = i

\* C26: process_fastq_file never invokes run_fastqc (or the metric
\* extraction) on a file whose validation failed: it records format_valid =
\* false and fastqc_success = false, appends the result to failed_qc and
\* returns.
C26_InvalidNeverRunsFastqc ==
    driver = "qc" =>
        \A i \in FileIds :
            (task_pc[i] # "none" /\ ~task_result[i].format_valid) =>
                /\ task_pc[i] \in {"skip", "exit"}
                /\ "fastqc_message" \notin DOMAIN task_result[i]
                /\ ~task_result[i].fastqc_success
                /\ task_result[i].metrics = EmptyDict
                /\ task_pc[i] = "exit" =>
                      /\ fut[i] = "finished"
                      /\ \E n \in 1..Len(failed_qc) : failed_qc[n] = task_result[i]

C26_Witness ==
    /\ driver = "qc"
    /\ Len(fastq_files) = 2
    /\ fastq_files[1][1] = <<"+">>
    /\ fastq_files[2][1] = <<"@">>
    /\ task_pc = <<"exit", "exit">>
    /\ ~task_result[1].format_valid
    /\ task_result[2].fastqc_success
    /\ Len(failed_qc) = 1
    /\ failed_qc[1].file = 1
    /\ Len(qc_results) = 1

\* C27: after any sequence of process_fastq_file calls, every processed
\* file's result is in failed_qc or qc_results: an invalid file is in
\* failed_qc only, a valid file whose FastQC run failed is in both lists, a
\* valid file whose FastQC run succeeded is in qc_results only.
C27_EveryResultListed ==
    driver = "qc" =>
        \A i \in FileIds :
            task_pc[i] = "exit" =>
                LET r == task_result[i] IN
                /\ InFailedQc(i) \/ InQcResults(i)
                /\ ~r.format_valid => InFailedQc(i) /\ ~InQcResults(i)
                /\ (r.format_valid /\ ~r.fastqc_success) => InFailedQc(i) /\ InQcResults(i)
                /\ (r.format_valid /\ r.fastqc_success) => ~InFailedQc(i) /\ InQcResults(i)

----------------------------------------------------------------------------
(* Claims on generate_quality_flags *)

FlagsOf(row) == {row.quality_flags[i] : i \in 1..Len(row.quality_flags)}

\* C15: generate_quality_flags gives each record all the flags whose
\* condition holds, each on its own: HIGH_DUPLICATION iff duplication_rate >
\* 20, MODERATE_DUPLICATION iff 10 < duplication_rate <= 20, LOW_COMPLEXITY
\* iff complexity_score < 50, ABNORMAL_GC_CONTENT iff gc_content < 40 or > 60,
\* LOW_COVERAGE iff coverage_estimate < 80; the record is 'PASS' iff no flag
\* applies, and HIGH_DUPLICATION and MODERATE_DUPLICATION never go together.
C15_QualityFlags ==
    main_pc = "flagged" =>
        \A n \in 1..Len(report) :
            LET row == report[n]
                flags == FlagsOf(row)
                high == RatLt(<<20, 1>>, row.duplication_rate)
                moderate == RatLt(<<10, 1>>, row.duplication_rate)
                                /\ RatLeq(row.duplication_rate, <<20, 1>>)
                low == RatLt(row.complexity_score, <<50, 1>>)
                gc == RatLt(row.gc_content, <<40, 1>>) \/ RatLt(<<60, 1>>, row.gc_content)
                coverage == RatLt(row.coverage_estimate, <<80, 1>>)
            IN /\ "HIGH_DUPLICATION" \in flags <=> high
               /\ "MODERATE_DUPLICATION" \in flags <=> moderate
               /\ "LOW_COMPLEXITY" \in flags <=> low
               /\ "ABNORMAL_GC_CONTENT" \in flags <=> gc
               /\ "LOW_COVERAGE" \in flags <=> coverage
               /\ "PASS" \in flags <=> ~(high \/ moderate \/ low \/ gc \/ coverage)
               /\ "PASS" \in flags => flags = {"PASS"}
               /\ ~({"HIGH_DUPLICATION", "MODERATE_DUPLICATION"} \subseteq flags)
               /\ Len(row.quality_flags) = Cardinality(flags)

C15_Witness ==
    /\ main_pc = "flagged"
    /\ \E n \in 1..Len(report) :
          /\ report[n].duplication_rate = <<20, 1>>
          /\ report[n].gc_content = <<70, 1>>
          /\ report[n].quality_flags =
                <<"MODERATE_DUPLICATION", "ABNORMAL_GC_CONTENT", "LOW_COVERAGE">>

----------------------------------------------------------------------------
(* Claims on the flags of degraded and of analysed records *)

\* both reads of file i failed: calculate_sequence_complexity and
\* estimate_library_size returned their records of defaults
AnalysisFailed(i) ==
    /\ \E f \in task_fail[i] : f.fn = "calculate_sequence_complexity"
    /\ \E f \in task_fail[i] : f.fn = "estimate_library_size"

IsFlagged(row, flag) == \E j \in 1..Len(row.quality_flags) : row.quality_flags[j] = flag

\* C30: for every record computed from a file with total_reads > 0, a
\* LOW_COMPLEXITY flag (complexity_score < 50) implies a HIGH_DUPLICATION
\* flag (duplication_rate > 50 > 20): 'LOW_COMPLEXITY' never appears without
\* 'HIGH_DUPLICATION'; and a record flagged 'PASS' has duplication_rate <= 10
\* and complexity_score >= 90.
C30_LowComplexityIsHighDuplication ==
    (driver = "complexity" /\ main_pc = "flagged") =>
        \A n \in 1..Len(report) :
            report[n].total_reads > 0 =>
                /\ IsFlagged(report[n], "LOW_COMPLEXITY") =>
                      /\ RatLt(report[n].complexity_score, <<50, 1>>)
                      /\ RatLt(<<50, 1>>, report[n].duplication_rate)
                      /\ IsFlagged(report[n], "HIGH_DUPLICATION")
                /\ report[n].quality_flags = <<"PASS">> =>
                      /\ RatLeq(report[n].duplication_rate, <<10, 1>>)
                      /\ RatLeq(<<90, 1>>, report[n].complexity_score)

C30_Witness ==
    /\ driver = "complexity"
    /\ main_pc = "flagged"
    /\ Len(report) = 1
    /\ report[1].total_reads = 10
    /\ report[1].unique_sequences = 4
    /\ report[1].complexity_score = <<40, 1>>
    /\ report[1].duplication_rate = <<60, 1>>
    /\ report[1].gc_content = <<50, 1>>
    /\ report[1].quality_flags = <<"HIGH_DUPLICATION", "LOW_COMPLEXITY", "LOW_COVERAGE">>

----------------------------------------------------------------------------
(* Claims on the drivers *)

RunReturned == main_pc \in {"returned", "reported"}
RecordsOf(i) == {n \in 1..Len(results) : results[n].file = i}

\* C1: after run_complexity_analysis, run_contamination_screening or
\* run_strand_detection returns, self.results holds exactly one record for
\* every file that find_fastq_files discovered, under every interleaving of
\* the workers and whether the analysis of a file succeeded or failed.
C1_OneRecordPerFile ==
    RunReturned =>
        /\ Len(results) = Len(fastq_files)
        /\ \A i \in FileIds : Cardinality(RecordsOf(i)) = 1

ZeroComplexity(r) ==
    /\ r.total_reads = 0
    /\ r.unique_sequences = 0
    /\ r.duplication_rate = RatZero
    /\ r.complexity_score = RatZero
    /\ EntropyIsZero(r.entropy)
    /\ r.gc_content = RatZero
    /\ r.quality_assessment = "unknown"

ComplexityReadFailed(i) ==
    \E f \in task_fail[i] : f.fn = "calculate_sequence_complexity"

\* C2: if opening or reading the file fails at any point, also after reads
\* were tallied, calculate_sequence_complexity does not raise and returns
\* total_reads, unique_sequences, duplicate_reads, duplication_rate,
\* complexity_score, entropy and gc_content all 0 with quality_assessment
\* 'unknown'; no partial count shows, and the file keeps its row in the
\* report.
C2_FailedReadZeroRecord ==
    driver = "complexity" =>
        \A i \in FileIds :
            /\ fut[i] # "raised"
            /\ ComplexityReadFailed(i) =>
                  /\ ZeroComplexity(task_result[i].complexity_metrics)
                  /\ task_result[i].complexity_metrics.duplicate_reads = 0
                  /\ main_pc = "reported" =>
                        \E n \in 1..Len(report) :
                            report[n].file = i /\ ZeroComplexity(report[n])

C2_Witness ==
    /\ driver = "complexity"
    /\ main_pc = "reported"
    /\ \E i \in FileIds :
          /\ [fn |-> "calculate_sequence_complexity", tallied |-> TRUE] \in task_fail[i]
          /\ \E n \in 1..Len(report) : report[n].file = i /\ ZeroComplexity(report[n])

====
